---- MODULE Spec2Model ----
(***************************************************************************)
(* Obol (src/obol/obol.py): POSIX users and groups kept in an LDAP         *)
(* directory.  Every public method of class Obol is a pure operator from    *)
(* the directory at entry to the directory at exit, together with the      *)
(* exception it raised (if any) and the directory writes it issued.  The   *)
(* directory has no referential integrity and no transactions: an entry is *)
(* changed only by the single write addressed to it.                       *)
(***************************************************************************)
EXTENDS Integers, Sequences, FiniteSets, TLC

\* People, Group: the entries under ou=People and ou=Group of the directory
\* last: the outcome of the public call that has just completed, until the
\* command exits;  nops: calls made so far
VARIABLES People, Group, last, nops

vars == <<People, Group, last, nops>>

(***************************************************************************)
(* Bounds of the exploration.                                              *)
(***************************************************************************)
\* number of public calls in one run
MaxOps == 3
\* longest list of usernames passed as users= / usernames
MaxUsersArg == 2
\* longest list of group names passed as groups=
MaxGroupsArg == 1
\* largest id in the used-id lists handed to _next_id on its own
MaxId == 4
\* most attribute arguments supplied in one call to user_modify
MaxAttrsArg == 2
\* the days on which calls are made are 1..MaxDay
MaxDay == 2

Usernames == {"alice", "bob"}
Groupnames == {"alice", "bob", "dev"}

(***************************************************************************)
(* Program constants.                                                      *)
(***************************************************************************)
\* a name argument left at its default None ("" is falsy as well)
None == ""
\* an id argument left at its default None
NoId == 0
UID_MIN == 1050
UID_MAX == 10000
GID_MIN == 150
GID_MAX == 10000

\* a password: tag is "{SSHA}" for a tagged digest and "" for a plain text;
\* the digest base64(sha1(text + salt) + salt) is kept as its text and salt
NoPassword == [tag |-> "", text |-> "", salt |-> ""]

\* an expire argument is <<>> for None and <<n>> for the string of n
NoExpire == <<>>

\* the keyword arguments of user_add / user_modify that become attributes,
\* all left at None; password stands for the password supplied, generated
\* (autogen_password) or typed (prompt_password)
NoAttrs ==
    [cn |-> None, sn |-> None, given_name |-> None, password |-> NoPassword,
     mail |-> None, phone |-> None, shell |-> None, home |-> <<>>, expire |-> NoExpire]

\* [users] home and shell of the configuration file
ConfigHome == "/home"
ConfigShell == "/bin/bash"

UidChoices == {UID_MIN, UID_MIN + 1}
GidChoices == {GID_MIN}

RECURSIVE SeqsUpTo(_, _)
SeqsUpTo(S, n) ==
    IF n = 0 THEN {<<>>}
    ELSE LET shorter == SeqsUpTo(S, n - 1)
         IN shorter \cup {Append(s, x) : s \in shorter, x \in S}

Range(s) == {s[i] : i \in 1..Len(s)}

RECURSIVE SetToSeq(_)
SetToSeq(S) ==
    IF S = {} THEN <<>>
    ELSE LET x == CHOOSE y \in S : TRUE IN <<x>> \o SetToSeq(S \ {x})

\* [x for x in s if x in keep], order kept
RECURSIVE Filter(_, _)
Filter(s, keep) ==
    IF s = <<>> THEN <<>>
    ELSE (IF Head(s) \in keep THEN <<Head(s)>> ELSE <<>>) \o Filter(Tail(s), keep)

(***************************************************************************)
(* Exceptions.  An exception carries its Python type, the fixed part of    *)
(* its message and the values the message formats.                         *)
(***************************************************************************)
Ok == [exc |-> "none", msg |-> "", names |-> <<>>]

Raise(c, exc, msg, names) ==
    [c EXCEPT !.err = [exc |-> exc, msg |-> msg, names |-> names]]

Failed(c) == c.err.exc # "none"

\* the context of a call made on the directory (users, groups): nothing
\* raised and nothing written yet; today is int(time.time() / 86400) and salt
\* what os.urandom returns during the call
Context(users, groups, today, salt) ==
    [users |-> users, groups |-> groups, log |-> <<>>, err |-> Ok,
     today |-> today, salt |-> salt]

\* the context of the next call, made on the directory the call r left
After(r) == [r EXCEPT !.log = <<>>, !.err = Ok]

(***************************************************************************)
(* Distinguished names and the member / memberOf codec.                    *)
(***************************************************************************)
user_dn(username) == [rdn |-> "uid", val |-> username, ou |-> "People"]

group_dn(groupname) == [rdn |-> "cn", val |-> groupname, ou |-> "Group"]

\* v.decode().split(",")[0].split("=")[1] for each value, order kept
member_parser(values) == [i \in 1..Len(values) |-> values[i].val]

\* the same extraction on the memberOf values, which the directory returns
\* in no particular order: a set
member_of_parser(values) == {v.val : v \in values}

(***************************************************************************)
(* The directory client (self.conn).  A context c holds the directory      *)
(* (c.users, c.groups), the exception raised so far (c.err) and the writes *)
(* issued so far in the current call (c.log).  A write is logged when it   *)
(* is issued, and applied only when the directory accepts it.              *)
(*   user entry : [uid, uidNumber, gidNumber, cn, sn, loginShell,           *)
(*                 homeDirectory, shadowExpire, shadowLastChange,          *)
(*                 givenName, mail, telephoneNumber, userPassword]; an     *)
(*                 optional attribute that is absent holds None            *)
(*                 (NoPassword); shadowMin, shadowMax and shadowWarning    *)
(*                 are the same in every entry and left out                *)
(*   group entry: [cn, gidNumber, member], member a sequence of user DNs   *)
(***************************************************************************)
Logged(c, call, dn, mods) ==
    [c EXCEPT !.log = Append(@, [call |-> call, dn |-> dn, mods |-> mods])]

\* conn.add_s(dn, user_record): refused when the DN is taken
add_s_user(c, entry) ==
    LET c1 == Logged(c, "add_s", user_dn(entry.uid), <<>>)
    IN IF \E u \in c.users : u.uid = entry.uid
       THEN Raise(c1, "LDAPError", "ALREADY_EXISTS", <<entry.uid>>)
       ELSE [c1 EXCEPT !.users = @ \cup {entry}]

\* conn.add_s(group_dn, group_record): the record carries no member value
add_s_group(c, entry) ==
    LET c1 == Logged(c, "add_s", group_dn(entry.cn), <<>>)
    IN IF \E g \in c.groups : g.cn = entry.cn
       THEN Raise(c1, "LDAPError", "ALREADY_EXISTS", <<entry.cn>>)
       ELSE [c1 EXCEPT !.groups = @ \cup {entry}]

\* conn.delete_s(user_dn): removes that entry and touches no other entry
delete_s_user(c, username) ==
    LET c1 == Logged(c, "delete_s", user_dn(username), <<>>)
    IN IF ~ \E u \in c.users : u.uid = username
       THEN Raise(c1, "LDAPError", "NO_SUCH_OBJECT", <<username>>)
       ELSE [c1 EXCEPT !.users = {u \in @ : u.uid # username}]

\* conn.delete_s(group_dn)
delete_s_group(c, groupname) ==
    LET c1 == Logged(c, "delete_s", group_dn(groupname), <<>>)
    IN IF ~ \E g \in c.groups : g.cn = groupname
       THEN Raise(c1, "LDAPError", "NO_SUCH_OBJECT", <<groupname>>)
       ELSE [c1 EXCEPT !.groups = {g \in @ : g.cn # groupname}]

\* a rename that empties the member list
rename_s_group_members_lost(c, groupname, new_groupname) ==
    LET c1 == [c EXCEPT !.log = Append(@, [call |-> "rename_s", dn |-> group_dn(groupname),
                                          mods |-> <<new_groupname>>])]
    IN IF ~ \E g \in c.groups : g.cn = groupname
       THEN [c1 EXCEPT !.err = [exc |-> "LDAPError", msg |-> "NO_SUCH_OBJECT",
                                names |-> <<groupname>>]]
       ELSE [c1 EXCEPT !.groups =
                {IF g.cn = groupname THEN [g EXCEPT !.cn = new_groupname, !.member = <<>>]
                 ELSE g : g \in @}]

\* conn.rename_s(group_dn, new_rdn, groups_dn): the entry keeps its other attributes
rename_s_group(c, groupname, new_groupname) ==
    LET c1 == Logged(c, "rename_s", group_dn(groupname), <<new_groupname>>)
    IN IF ~ \E g \in c.groups : g.cn = groupname
       THEN Raise(c1, "LDAPError", "NO_SUCH_OBJECT", <<groupname>>)
       ELSE IF \E g \in c.groups : g.cn = new_groupname
       THEN Raise(c1, "LDAPError", "ALREADY_EXISTS", <<new_groupname>>)
       ELSE [c1 EXCEPT !.groups =
                {IF g.cn = groupname THEN [g EXCEPT !.cn = new_groupname] ELSE g : g \in @}]

\* One modification of a member list: MOD_ADD of a value that is present and
\* MOD_DELETE of a value that is absent are refused (m.bad), as LDAP does.
RECURSIVE apply_member_mods(_, _)
apply_member_mods(m, mods) ==
    IF mods = <<>> \/ m.bad # "" THEN m
    ELSE LET mod == Head(mods)
             present == mod.val \in Range(m.member)
         IN IF mod.op = "MOD_ADD"
            THEN IF present
                 THEN [m EXCEPT !.bad = "TYPE_OR_VALUE_EXISTS"]
                 ELSE apply_member_mods([m EXCEPT !.member = Append(@, mod.val)], Tail(mods))
            ELSE IF ~ present
                 THEN [m EXCEPT !.bad = "NO_SUCH_ATTRIBUTE"]
                 ELSE apply_member_mods(
                          [m EXCEPT !.member = Filter(@, Range(@) \ {mod.val})], Tail(mods))

\* conn.modify_s(group_dn, mod_attrs) on the member attribute: all the
\* modifications are applied, or none; an empty list changes nothing
modify_s_group(c, groupname, mods) ==
    LET c1 == Logged(c, "modify_s", group_dn(groupname), mods)
    IN IF ~ \E g \in c.groups : g.cn = groupname
       THEN Raise(c1, "LDAPError", "NO_SUCH_OBJECT", <<groupname>>)
       ELSE LET g == CHOOSE x \in c.groups : x.cn = groupname
                m == apply_member_mods([member |-> g.member, bad |-> ""], mods)
            IN IF m.bad # ""
               THEN Raise(c1, "LDAPError", m.bad, <<groupname>>)
               ELSE [c1 EXCEPT !.groups = (@ \ {g}) \cup {[g EXCEPT !.member = m.member]}]

\* variant: only the first modification of the list is applied
apply_replaces_first(entry, mods) ==
    IF mods = <<>> THEN entry
    ELSE [entry EXCEPT ![Head(mods).attr] = Head(mods).val]

\* MOD_REPLACE of one attribute after the other: the value is set, whether
\* or not the attribute was present
RECURSIVE apply_replaces(_, _)
apply_replaces(entry, mods) ==
    IF mods = <<>> THEN entry
    ELSE apply_replaces([entry EXCEPT ![Head(mods).attr] = Head(mods).val], Tail(mods))

\* variant: the value replacing gidNumber lands on uidNumber
modify_s_user_uidNumber(c, username, mod_attrs) ==
    LET c1 == Logged(c, "modify_s", user_dn(username), mod_attrs)
        moved == [i \in 1..Len(mod_attrs) |->
                     IF mod_attrs[i].attr = "gidNumber"
                     THEN [mod_attrs[i] EXCEPT !.attr = "uidNumber"]
                     ELSE mod_attrs[i]]
    IN [c1 EXCEPT !.users =
           {IF u.uid = username THEN apply_replaces(u, moved) ELSE u : u \in @}]

\* conn.modify_s(user_dn, mod_attrs): every modification is a MOD_REPLACE; an
\* empty list changes nothing
modify_s_user(c, username, mod_attrs) ==
    LET c1 == Logged(c, "modify_s", user_dn(username), mod_attrs)
    IN IF ~ \E u \in c.users : u.uid = username
       THEN Raise(c1, "LDAPError", "NO_SUCH_OBJECT", <<username>>)
       ELSE [c1 EXCEPT !.users =
                {IF u.uid = username THEN apply_replaces(u, mod_attrs) ELSE u : u \in @}]

(***************************************************************************)
(* Reads.  memberOf is the reverse lookup of the member lists.             *)
(***************************************************************************)
memberOf(c, username) ==
    {group_dn(g.cn) : g \in {x \in c.groups : user_dn(username) \in Range(x.member)}}

\* the attributes of user_fields, and memberOf
decode_user(c, u) ==
    [uid |-> u.uid, uidNumber |-> u.uidNumber, gidNumber |-> u.gidNumber,
     cn |-> u.cn, sn |-> u.sn, loginShell |-> u.loginShell,
     homeDirectory |-> u.homeDirectory, shadowExpire |-> u.shadowExpire,
     shadowLastChange |-> u.shadowLastChange, givenName |-> u.givenName,
     mail |-> u.mail, telephoneNumber |-> u.telephoneNumber,
     userPassword |-> u.userPassword,
     memberOf |-> member_of_parser(memberOf(c, u.uid))]

decode_group(g) ==
    [cn |-> g.cn, gidNumber |-> g.gidNumber, member |-> member_parser(g.member)]

user_list(c) == {decode_user(c, u) : u \in c.users}

group_list(c) == {decode_group(g) : g \in c.groups}

\* the first match of (uid=username); user_show raises LookupError when there is none
user_show_found(c, username) == \E u \in c.users : u.uid = username

user_show(c, username) == decode_user(c, CHOOSE u \in c.users : u.uid = username)

group_show_found(c, groupname) == \E g \in c.groups : g.cn = groupname

group_show(c, groupname) == decode_group(CHOOSE g \in c.groups : g.cn = groupname)

(***************************************************************************)
(* Helpers of class Obol.                                                  *)
(***************************************************************************)
\* variant: a tagged password is hashed again
_make_secret_again(password, salt) ==
    [tag |-> "{SSHA}", text |-> password.text, salt |-> salt]

\* a tagged password is returned as it is; a plain one is hashed with a
\* fresh salt and tagged
_make_secret(password, salt) ==
    IF password.tag = "{SSHA}" THEN password
    ELSE [tag |-> "{SSHA}", text |-> password.text, salt |-> salt]

\* min([i for i in range(id_min, id_max) if i not in idlist]), found by
\* halving the range: the smallest free id is above mid when every id of
\* i..mid is used, and in i..mid otherwise; NoId stands for the ValueError
\* of min([])
RECURSIVE first_free(_, _, _)
first_free(idlist, i, id_max) ==
    IF i >= id_max THEN NoId
    ELSE IF i \notin idlist THEN i
    ELSE LET mid == (i + id_max - 1) \div 2
         IN IF \A k \in i..mid : k \in idlist
            THEN first_free(idlist, mid + 1, id_max)
            ELSE first_free(idlist, i, mid + 1)

\* variant: the scan starts one above id_min
_next_id_above_min(idlist, id_min, id_max) == first_free(idlist, id_min + 1, id_max)

\* variant: the used ids are not looked at
_next_id_unused_ignored(idlist, id_min, id_max) == first_free({}, id_min, id_max)

_next_id(idlist, id_min, id_max) == first_free(idlist, id_min, id_max)

\* variant: the uids of the users read are not looked at
_next_uid_lowest(_users) == UID_MIN

_next_uid(_users) == _next_id({u.uidNumber : u \in _users}, UID_MIN, UID_MAX)

_next_gid(_groups) == _next_id({g.gidNumber : g \in _groups}, GID_MIN, GID_MAX)

_username_exists(username, _users) == \E user \in _users : user.uid = username

\* variant: no group name is ever found
_groupname_exists_never(groupname, _groups) == FALSE

_groupname_exists(groupname, _groups) == \E group \in _groups : group.cn = groupname

\* variant: the comparison of the supplied uid with the stored one never matches
_uid_exists_never(uid, _users) == FALSE

_uid_exists(uid, _users) == \E user \in _users : user.uidNumber = uid

_gid_exists(gid, _groups) == \E group \in _groups : group.gidNumber = gid

\* variant: the lowest gidNumber of the directory instead of the named group's
gid_of_groupname_lowest(groupname, _groups) ==
    CHOOSE n \in {g.gidNumber : g \in _groups} : \A g \in _groups : n <= g.gidNumber

\* [g["gidNumber"] for g in existing_groups if g["cn"] == groupname][0]
gid_of_groupname(groupname, _groups) ==
    (CHOOSE g \in _groups : g.cn = groupname).gidNumber

\* [g["cn"] for g in existing_groups if g["gidNumber"] == gid]: the names
\* with that gid; [0] raises IndexError when there is none
groupnames_of_gid(gid, _groups) == {g.cn : g \in {x \in _groups : x.gidNumber = gid}}

\* variant: only the first name that is not in existing
incorrect_names_first(names, existing) ==
    LET all == Filter(names, Range(names) \ existing)
    IN IF all = <<>> THEN <<>> ELSE <<Head(all)>>

\* [u for u in names if u not in existing], order kept
incorrect_names(names, existing) == Filter(names, Range(names) \ existing)

(***************************************************************************)
(* Public methods of class Obol.  Each takes the context at entry (no      *)
(* exception pending) and returns the context at exit.                     *)
(***************************************************************************)
\* variant: the member list is replaced by usernames instead of extended
group_addusers_replace(c, groupname, usernames) ==
    IF ~ group_show_found(c, groupname)
    THEN Raise(c, "LookupError", "Group does not exist", <<groupname>>)
    ELSE LET existing_group == group_show(c, groupname)
             g == CHOOSE x \in c.groups : x.cn = groupname
             dns == [i \in 1..Len(usernames) |-> user_dn(usernames[i])]
         IN IF \A i \in 1..Len(usernames) : usernames[i] \in Range(existing_group.member)
            THEN c
            ELSE [Logged(c, "modify_s", group_dn(groupname), dns)
                    EXCEPT !.groups = (@ \ {g}) \cup {[g EXCEPT !.member = dns]}]

group_addusers(c, groupname, usernames) ==
    IF ~ group_show_found(c, groupname)
    THEN Raise(c, "LookupError", "Group does not exist", <<groupname>>)
    ELSE LET existing_group == group_show(c, groupname)
             existing_usernames == {u.uid : u \in user_list(c)}
             incorrect_usernames == incorrect_names(usernames, existing_usernames)
             mod_attrs == [i \in 1..Len(usernames) |->
                             [op |-> "MOD_ADD", attr |-> "member", val |-> user_dn(usernames[i])]]
         IN IF \A i \in 1..Len(usernames) : usernames[i] \in Range(existing_group.member)
            THEN c
            ELSE IF Len(incorrect_usernames) > 0
            THEN Raise(c, "ValueError", "Users do not exist", incorrect_usernames)
            ELSE modify_s_group(c, groupname, mod_attrs)

group_delusers(c, groupname, usernames) ==
    IF ~ group_show_found(c, groupname)
    THEN Raise(c, "LookupError", "Group does not exist", <<groupname>>)
    ELSE LET existing_users == user_list(c)
             existing_usernames == {u.uid : u \in existing_users}
             incorrect_usernames == incorrect_names(usernames, existing_usernames)
             \* one MOD_DELETE per existing user named in usernames
             named == SetToSeq({u.uid : u \in {x \in existing_users : x.uid \in Range(usernames)}})
             mod_attrs == [i \in 1..Len(named) |->
                             [op |-> "MOD_DELETE", attr |-> "member", val |-> user_dn(named[i])]]
         IN IF Len(incorrect_usernames) > 0
            THEN Raise(c, "LookupError", "Users do not exist", incorrect_usernames)
            ELSE modify_s_group(c, groupname, mod_attrs)

group_add(c, groupname, gid, users) ==
    LET existing_groups == group_list(c)
        gid1 == IF gid # NoId THEN gid ELSE _next_gid(existing_groups)
        existing_usernames == {u.uid : u \in user_list(c)}
        incorrect_usernames == incorrect_names(users, existing_usernames)
        c1 == add_s_group(c, [cn |-> groupname, gidNumber |-> gid1, member |-> <<>>])
    IN IF _groupname_exists(groupname, existing_groups)
       THEN Raise(c, "ValueError", "Groupname already exists", <<groupname>>)
       ELSE IF gid # NoId /\ _gid_exists(gid, existing_groups)
       THEN Raise(c, "ValueError", "GID already exists", <<gid>>)
       ELSE IF gid1 = NoId
       THEN Raise(c, "ValueError", "min() arg is an empty sequence", <<>>)
       ELSE IF users # <<>> /\ Len(incorrect_usernames) > 0
       THEN Raise(c, "ValueError", "Users do not exist", incorrect_usernames)
       ELSE IF Failed(c1) \/ users = <<>> THEN c1
       ELSE group_addusers(c1, groupname, users)

\* variant: the entry is deleted without looking for the user first
user_delete_unchecked(c, username) ==
    LET c1 == delete_s_user(c, username)
    IN IF Failed(c1) THEN c1
       ELSE IF ~ group_show_found(c1, username) THEN c1
       ELSE IF Len(group_show(c1, username).member) = 0
       THEN delete_s_group(c1, group_show(c1, username).cn)
       ELSE c1

user_delete(c, username) ==
    LET usernames == {u.uid : u \in user_list(c)}
        c1 == delete_s_user(c, username)
    IN IF username \notin usernames
       THEN Raise(c, "LookupError", "User does not exist", <<username>>)
       ELSE IF Failed(c1) THEN c1
       \* the default group: deleted when its member list is empty
       ELSE IF ~ group_show_found(c1, username) THEN c1
       ELSE IF Len(group_show(c1, username).member) = 0
       THEN delete_s_group(c1, group_show(c1, username).cn)
       ELSE c1

\* variant: the member list is not looked at
group_delete_unchecked(c, groupname) ==
    IF ~ \E g \in group_list(c) : g.cn = groupname
    THEN Raise(c, "LookupError", "Group does not exist", <<groupname>>)
    ELSE delete_s_group(c, groupname)

group_delete(c, groupname) ==
    LET groupnames == {g.cn : g \in group_list(c)}
    IN IF groupname \notin groupnames
       THEN Raise(c, "LookupError", "Group does not exist", <<groupname>>)
       ELSE IF Len(group_show(c, groupname).member) > 0
       THEN Raise(c, "ValueError", "Group has members", <<groupname>>)
       ELSE delete_s_group(c, groupname)

group_rename(c, groupname, new_groupname) ==
    LET existing_groups == group_list(c)
    IN IF ~ _groupname_exists(groupname, existing_groups)
       THEN Raise(c, "LookupError", "Group does not exist", <<groupname>>)
       ELSE IF _groupname_exists(new_groupname, existing_groups)
       THEN Raise(c, "ValueError", "Group already exists", <<new_groupname>>)
       ELSE rename_s_group(c, groupname, new_groupname)

\* variant: a supplied gid is ignored instead of rejected
group_modify_gid_ignored(c, groupname, gid, users_given, users) ==
    IF ~ group_show_found(c, groupname)
    THEN Raise(c, "LookupError", "Group does not exist", <<groupname>>)
    ELSE LET existing_group == group_show(c, groupname)
             existing_users == user_list(c)
             existing_usernames == {u.uid : u \in existing_users}
             incorrect_usernames == incorrect_names(users, existing_usernames)
             existing_primary_group_usernames ==
                 {u.uid : u \in {x \in existing_users : x.gidNumber = existing_group.gidNumber}}
             users_to_add ==
                 IF users_given
                 THEN Filter(users, Range(users) \ Range(existing_group.member))
                 ELSE <<>>
             users_to_del ==
                 IF users_given
                 THEN Filter(existing_group.member,
                             Range(existing_group.member) \ existing_primary_group_usernames)
                 ELSE <<>>
             c1 == modify_s_group(c, groupname, <<>>)
             c2 == IF Failed(c1) THEN c1 ELSE group_addusers(c1, groupname, users_to_add)
         IN IF users_given /\ Len(incorrect_usernames) > 0
            THEN Raise(c, "ValueError", "Users do not exist", incorrect_usernames)
            ELSE IF Failed(c2) THEN c2 ELSE group_delusers(c2, groupname, users_to_del)

\* users_given is FALSE for users=None; an empty list is a supplied list
group_modify(c, groupname, gid, users_given, users) ==
    IF ~ group_show_found(c, groupname)
    THEN Raise(c, "LookupError", "Group does not exist", <<groupname>>)
    ELSE LET existing_group == group_show(c, groupname)
             existing_users == user_list(c)
             existing_usernames == {u.uid : u \in existing_users}
             incorrect_usernames == incorrect_names(users, existing_usernames)
             existing_group_usernames == existing_group.member
             existing_primary_group_usernames ==
                 {u.uid : u \in {x \in existing_users : x.gidNumber = existing_group.gidNumber}}
             users_to_add ==
                 IF users_given
                 THEN Filter(users, Range(users) \ Range(existing_group_usernames))
                 ELSE <<>>
             users_to_del ==
                 IF users_given
                 THEN Filter(existing_group_usernames,
                             Range(existing_group_usernames) \ existing_primary_group_usernames)
                 ELSE <<>>
             c1 == modify_s_group(c, groupname, <<>>)
             c2 == IF Failed(c1) THEN c1 ELSE group_addusers(c1, groupname, users_to_add)
             c3 == IF Failed(c2) THEN c2 ELSE group_delusers(c2, groupname, users_to_del)
         IN IF gid # NoId
            THEN Raise(c, "NotImplementedError", "changing GID of existing group is not supported", <<>>)
            ELSE IF users_given /\ Len(incorrect_usernames) > 0
            THEN Raise(c, "ValueError", "Users do not exist", incorrect_usernames)
            ELSE c3

\* group_addusers(group, [username]) for each group of the list, in order,
\* stopping at the first exception
RECURSIVE join_groups(_, _, _)
join_groups(c, grouplist, username) ==
    IF Failed(c) \/ grouplist = <<>> THEN c
    ELSE join_groups(group_addusers(c, Head(grouplist), <<username>>), Tail(grouplist), username)

RECURSIVE leave_groups(_, _, _)
leave_groups(c, grouplist, username) ==
    IF Failed(c) \/ grouplist = <<>> THEN c
    ELSE leave_groups(group_delusers(c, Head(grouplist), <<username>>), Tail(grouplist), username)

\* user_add, "Ensure groups correctness": the primary group of the new user
\* as [err, gid, groupname, create_group]
user_add_primary_group(username, gid, groupname, existing_groups) ==
    LET fail(msg, names) ==
            [err |-> [exc |-> "ValueError", msg |-> msg, names |-> names],
             gid |-> NoId, groupname |-> None, create_group |-> FALSE]
        done(g, n, create) ==
            [err |-> Ok, gid |-> g, groupname |-> n, create_group |-> create]
    IN IF groupname # None \/ gid # NoId
       THEN IF groupname # None /\ ~ _groupname_exists(groupname, existing_groups)
            THEN fail("Group does not exist", <<groupname>>)
            ELSE LET gid1 == IF groupname # None
                             THEN gid_of_groupname(groupname, existing_groups)
                             ELSE gid
                 IN IF ~ _gid_exists(gid1, existing_groups)
                    THEN fail("GID does not exist", <<gid1>>)
                    ELSE LET groupname1 ==
                                 CHOOSE n \in groupnames_of_gid(gid1, existing_groups) : TRUE
                         IN IF groupname1 # (CHOOSE n \in groupnames_of_gid(gid1, existing_groups) : TRUE)
                            THEN fail("Group does not have gid", <<groupname1>>)
                            ELSE done(gid1, groupname1, FALSE)
       ELSE IF _groupname_exists(username, existing_groups)
            THEN done(gid_of_groupname(username, existing_groups), username, FALSE)
            ELSE IF _next_gid(existing_groups) = NoId
            THEN fail("min() arg is an empty sequence", <<>>)
            ELSE done(_next_gid(existing_groups), username, TRUE)

\* variant: the primary group is joined before the groups of the argument
user_add_joins_primary_first(grouplist, groupname) == <<groupname>> \o grouplist

\* variant: the primary group is left out of the joins
user_add_joins_groups_only(grouplist, groupname) == grouplist

\* (groups or []) + [groupname]: the groups the new user is joined to, in order
user_add_joins(grouplist, groupname) == grouplist \o <<groupname>>

\* user_add, "Add the user": the entry written for username
user_record(c, username, a, uid, gid) ==
    [uid |-> username,
     cn |-> IF a.cn # None THEN a.cn ELSE username,
     sn |-> IF a.sn # None THEN a.sn ELSE username,
     loginShell |-> IF a.shell # None THEN a.shell ELSE ConfigShell,
     uidNumber |-> uid,
     gidNumber |-> gid,
     homeDirectory |-> IF a.home # <<>> THEN a.home ELSE <<ConfigHome, username>>,
     shadowExpire |-> IF a.expire # NoExpire /\ a.expire # <<-1>>
                      THEN a.expire[1] + c.today
                      ELSE -1,
     shadowLastChange |-> c.today,
     givenName |-> a.given_name,
     mail |-> a.mail,
     telephoneNumber |-> a.phone,
     userPassword |-> IF a.password # NoPassword
                      THEN _make_secret(a.password, c.salt)
                      ELSE NoPassword]

\* variant: a failure after the first write restores the directory
user_add_rolled_back(c, username, a, uid, gid, groupname, grouplist) ==
    LET existing_users == user_list(c)
        uid1 == IF uid # NoId THEN uid ELSE _next_uid(existing_users)
        pg == user_add_primary_group(username, gid, groupname, group_list(c))
        c1 == add_s_user(c, user_record(c, username, a, uid1, pg.gid))
        c2 == IF Failed(c1) \/ ~ pg.create_group THEN c1
              ELSE group_add(c1, pg.groupname, pg.gid, <<username>>)
        c3 == join_groups(c2, grouplist \o <<pg.groupname>>, username)
    IN IF _username_exists(username, existing_users)
       THEN Raise(c, "ValueError", "Username already exists", <<username>>)
       ELSE IF uid # NoId /\ _uid_exists(uid, existing_users)
       THEN Raise(c, "ValueError", "UID already exists", <<uid>>)
       ELSE IF uid1 = NoId
       THEN Raise(c, "ValueError", "min() arg is an empty sequence", <<>>)
       ELSE IF pg.err.exc # "none" THEN [c EXCEPT !.err = pg.err]
       ELSE IF Failed(c3) THEN [c3 EXCEPT !.users = c.users, !.groups = c.groups]
       ELSE c3

user_add(c, username, a, uid, gid, groupname, grouplist) ==
    LET existing_users == user_list(c)
        uid1 == IF uid # NoId THEN uid ELSE _next_uid(existing_users)
        pg == user_add_primary_group(username, gid, groupname, group_list(c))
        c1 == add_s_user(c, user_record(c, username, a, uid1, pg.gid))
        c2 == IF Failed(c1) \/ ~ pg.create_group THEN c1
              ELSE group_add(c1, pg.groupname, pg.gid, <<username>>)
        c3 == join_groups(c2, user_add_joins(grouplist, pg.groupname), username)
    IN IF _username_exists(username, existing_users)
       THEN Raise(c, "ValueError", "Username already exists", <<username>>)
       ELSE IF uid # NoId /\ _uid_exists(uid, existing_users)
       THEN Raise(c, "ValueError", "UID already exists", <<uid>>)
       ELSE IF uid1 = NoId
       THEN Raise(c, "ValueError", "min() arg is an empty sequence", <<>>)
       ELSE IF pg.err.exc # "none" THEN [c EXCEPT !.err = pg.err]
       ELSE c3

\* variant: no replacement is made
replace_if_never(supplied, attr, val) == <<>>

\* "if value: mod_attrs.append((ldap.MOD_REPLACE, attr, value))"
replace_if(supplied, attr, val) ==
    IF supplied THEN <<[op |-> "MOD_REPLACE", attr |-> attr, val |-> val]>> ELSE <<>>

\* a difference that forgets the primary group
memberships_to_drop_primary_too(member_of, grouplist, primary_group) ==
    SetToSeq(member_of \ Range(grouplist))

\* groups_to_del: the groups of memberOf that are neither in groups nor the
\* primary group
memberships_to_drop(member_of, grouplist, primary_group) ==
    SetToSeq((member_of \ Range(grouplist)) \ {primary_group})

\* variant: the new primary group is joined before the old one is left
user_modify_join_first(c, username, a, uid, gid, groupname, groups_given, grouplist) ==
    IF ~ user_show_found(c, username)
    THEN Raise(c, "LookupError", "User does not exist", <<username>>)
    ELSE LET existing_user == user_show(c, username)
             existing_groups == group_list(c)
             _gid == gid_of_groupname(groupname, existing_groups)
             gid1 == IF groupname # None THEN _gid ELSE gid
             groupname1 == IF gid1 # NoId
                           THEN CHOOSE n \in groupnames_of_gid(gid1, existing_groups) : TRUE
                           ELSE groupname
             primary_group_changed == gid1 # NoId \/ groupname1 # None
             \* the names of the groups with the user's current gidNumber
             own == groupnames_of_gid(existing_user.gidNumber, existing_groups)
             old_groupname == CHOOSE n \in own : TRUE
             existing_groupnames == {g.cn : g \in group_list(c)}
             incorrect_groupnames == incorrect_names(grouplist, existing_groupnames)
             primary_group == CHOOSE n \in own : TRUE
             if_groups == groups_given /\ grouplist # <<>>
             groups_to_add ==
                 IF ~ if_groups THEN <<>>
                 ELSE Filter(grouplist, Range(grouplist) \ existing_user.memberOf)
             groups_to_del ==
                 IF ~ if_groups THEN <<>>
                 ELSE memberships_to_drop(existing_user.memberOf, grouplist, primary_group)
             mod_attrs ==
                 replace_if(a.cn # None, "cn", a.cn)
                 \o replace_if(a.sn # None, "sn", a.sn)
                 \o replace_if(a.given_name # None, "givenName", a.given_name)
                 \o replace_if(primary_group_changed, "gidNumber", gid1)
                 \o replace_if(a.mail # None, "mail", a.mail)
                 \o replace_if(a.phone # None, "telephoneNumber", a.phone)
                 \o replace_if(a.shell # None, "loginShell", a.shell)
                 \o replace_if(a.home # <<>>, "homeDirectory", a.home)
                 \o replace_if(a.expire # NoExpire, "shadowExpire",
                               IF a.expire # <<-1>> THEN a.expire[1] + c.today ELSE -1)
                 \o replace_if(a.password # NoPassword, "userPassword",
                               _make_secret(a.password, c.salt))
             c1 == modify_s_user(c, username, mod_attrs)
             c2 == IF Failed(c1) \/ ~ primary_group_changed THEN c1
                   ELSE group_addusers(c1, groupname1, <<username>>)
             c3 == IF Failed(c2) \/ ~ primary_group_changed THEN c2
                   ELSE group_delusers(c2, old_groupname, <<username>>)
             c4 == join_groups(c3, groups_to_add, username)
             c5 == leave_groups(c4, groups_to_del, username)
         IN IF uid # NoId
            THEN Raise(c, "NotImplementedError", "changing UID of existing user is not supported", <<>>)
            ELSE IF groupname # None /\ ~ _groupname_exists(groupname, existing_groups)
            THEN Raise(c, "ValueError", "Group does not exist", <<groupname>>)
            ELSE IF groupname # None /\ gid # NoId /\ gid # _gid
            THEN Raise(c, "ValueError", "Group does not have gid", <<groupname>>)
            ELSE IF groupname = None /\ gid # NoId /\ ~ _gid_exists(gid, existing_groups)
            THEN Raise(c, "ValueError", "GID does not exist", <<gid>>)
            ELSE IF primary_group_changed /\ own = {}
            THEN Raise(c, "IndexError", "list index out of range", <<>>)
            ELSE IF if_groups /\ Len(incorrect_groupnames) > 0
            THEN Raise(c, "ValueError", "Groups do not exist", incorrect_groupnames)
            ELSE IF if_groups /\ own = {}
            THEN Raise(c, "IndexError", "list index out of range", <<>>)
            ELSE c5

\* groups_given is FALSE for groups=None; "if groups:" is also false for an
\* empty list
user_modify(c, username, a, uid, gid, groupname, groups_given, grouplist) ==
    IF ~ user_show_found(c, username)
    THEN Raise(c, "LookupError", "User does not exist", <<username>>)
    ELSE LET existing_user == user_show(c, username)
             existing_groups == group_list(c)
             _gid == gid_of_groupname(groupname, existing_groups)
             gid1 == IF groupname # None THEN _gid ELSE gid
             groupname1 == IF gid1 # NoId
                           THEN CHOOSE n \in groupnames_of_gid(gid1, existing_groups) : TRUE
                           ELSE groupname
             primary_group_changed == gid1 # NoId \/ groupname1 # None
             \* the names of the groups with the user's current gidNumber
             own == groupnames_of_gid(existing_user.gidNumber, existing_groups)
             old_groupname == CHOOSE n \in own : TRUE
             existing_groupnames == {g.cn : g \in group_list(c)}
             incorrect_groupnames == incorrect_names(grouplist, existing_groupnames)
             primary_group == CHOOSE n \in own : TRUE
             if_groups == groups_given /\ grouplist # <<>>
             groups_to_add ==
                 IF ~ if_groups THEN <<>>
                 ELSE Filter(grouplist, Range(grouplist) \ existing_user.memberOf)
             groups_to_del ==
                 IF ~ if_groups THEN <<>>
                 ELSE memberships_to_drop(existing_user.memberOf, grouplist, primary_group)
             mod_attrs ==
                 replace_if(a.cn # None, "cn", a.cn)
                 \o replace_if(a.sn # None, "sn", a.sn)
                 \o replace_if(a.given_name # None, "givenName", a.given_name)
                 \o replace_if(primary_group_changed, "gidNumber", gid1)
                 \o replace_if(a.mail # None, "mail", a.mail)
                 \o replace_if(a.phone # None, "telephoneNumber", a.phone)
                 \o replace_if(a.shell # None, "loginShell", a.shell)
                 \o replace_if(a.home # <<>>, "homeDirectory", a.home)
                 \o replace_if(a.expire # NoExpire, "shadowExpire",
                               IF a.expire # <<-1>> THEN a.expire[1] + c.today ELSE -1)
                 \o replace_if(a.password # NoPassword, "userPassword",
                               _make_secret(a.password, c.salt))
             c1 == modify_s_user(c, username, mod_attrs)
             c2 == IF Failed(c1) \/ ~ primary_group_changed THEN c1
                   ELSE group_delusers(c1, old_groupname, <<username>>)
             c3 == IF Failed(c2) \/ ~ primary_group_changed THEN c2
                   ELSE group_addusers(c2, groupname1, <<username>>)
             c4 == join_groups(c3, groups_to_add, username)
             c5 == leave_groups(c4, groups_to_del, username)
         IN IF uid # NoId
            THEN Raise(c, "NotImplementedError", "changing UID of existing user is not supported", <<>>)
            ELSE IF groupname # None /\ ~ _groupname_exists(groupname, existing_groups)
            THEN Raise(c, "ValueError", "Group does not exist", <<groupname>>)
            ELSE IF groupname # None /\ gid # NoId /\ gid # _gid
            THEN Raise(c, "ValueError", "Group does not have gid", <<groupname>>)
            ELSE IF groupname = None /\ gid # NoId /\ ~ _gid_exists(gid, existing_groups)
            THEN Raise(c, "ValueError", "GID does not exist", <<gid>>)
            ELSE IF primary_group_changed /\ own = {}
            THEN Raise(c, "IndexError", "list index out of range", <<>>)
            ELSE IF if_groups /\ Len(incorrect_groupnames) > 0
            THEN Raise(c, "ValueError", "Groups do not exist", incorrect_groupnames)
            ELSE IF if_groups /\ own = {}
            THEN Raise(c, "IndexError", "list index out of range", <<>>)
            ELSE c5

(***************************************************************************)
(* export_, import_ and erase_.  The lists that user_list and group_list   *)
(* return are walked in the order SetToSeq gives them; the data of export_ *)
(* and import_ is [users, groups], two sequences of decoded entries.       *)
(***************************************************************************)
export_(c) == [users |-> SetToSeq(user_list(c)), groups |-> SetToSeq(group_list(c))]

\* the keyword arguments import_ takes from an exported user
import_attrs(user) ==
    [cn |-> user.cn, sn |-> user.sn, given_name |-> user.givenName,
     password |-> user.userPassword, mail |-> user.mail, phone |-> user.telephoneNumber,
     shell |-> user.loginShell, home |-> user.homeDirectory,
     expire |-> <<user.shadowExpire>>]

\* for group in groups: group_add(cn, gidNumber); ValueError and every other
\* Exception are caught and reported
RECURSIVE import_groups(_, _)
import_groups(c, groups) ==
    IF groups = <<>> THEN c
    ELSE LET group == Head(groups)
             r == group_add(c, group.cn, group.gidNumber, <<>>)
         IN import_groups([r EXCEPT !.err = Ok], Tail(groups))

\* for user in users: user_add(...); ValueError is caught and reported, any
\* other exception leaves the loop and import_
RECURSIVE import_users(_, _)
import_users(c, users) ==
    IF users = <<>> THEN c
    ELSE LET user == Head(users)
             r == user_add(c, user.uid, import_attrs(user), user.uidNumber, user.gidNumber,
                           None, SetToSeq(user.memberOf))
         IN IF Failed(r) /\ r.err.exc # "ValueError" THEN r
            ELSE import_users([r EXCEPT !.err = Ok], Tail(users))

import_(c, data) == import_users(import_groups(c, data.groups), data.users)

RECURSIVE erase_users(_, _)
erase_users(c, usernames) ==
    IF Failed(c) \/ usernames = <<>> THEN c
    ELSE erase_users(user_delete(c, Head(usernames)), Tail(usernames))

RECURSIVE erase_groups(_, _)
erase_groups(c, groupnames) ==
    IF Failed(c) \/ groupnames = <<>> THEN c
    ELSE erase_groups(group_delete(c, Head(groupnames)), Tail(groupnames))

\* every user of user_list is deleted, then every group of a fresh group_list
erase_(c) ==
    LET c1 == erase_users(c, SetToSeq({u.uid : u \in user_list(c)}))
    IN IF Failed(c1) THEN c1
       ELSE erase_groups(c1, SetToSeq({g.cn : g \in group_list(c1)}))

(***************************************************************************)
(* The state machine: one action per public method, called with arguments  *)
(* drawn from small sets on the directory as it stands.                    *)
(***************************************************************************)
UserLists == SeqsUpTo(Usernames, MaxUsersArg)
GroupLists == SeqsUpTo(Groupnames, MaxGroupsArg)
UidArgs == {NoId} \cup UidChoices
GidArgs == {NoId} \cup GidChoices
GroupnameArgs == {None} \cup Groupnames

Ctx == Context(People, Group, 1, "s1")

NoArgs == [username |-> None, groupname |-> None, new_groupname |-> None, uid |-> NoId,
           gid |-> NoId, groups_given |-> FALSE, groups |-> <<>>,
           users_given |-> FALSE, users |-> <<>>, attrs |-> NoAttrs,
           data |-> [users |-> <<>>, groups |-> <<>>]]

\* no call in progress and none to observe: the shell between two commands
Idle == [op |-> "idle", args |-> NoArgs, err |-> Ok, log |-> <<>>]

Init ==
    /\ People = {}
    /\ Group = {}
    /\ last = Idle
    /\ nops = 0

\* run(): one public method is called per command, on a fresh Obol object
Called == last.op = "idle" /\ nops < MaxOps

Return(op, args, r) ==
    /\ People' = r.users
    /\ Group' = r.groups
    /\ last' = [op |-> op, args |-> args, err |-> r.err, log |-> r.log]
    /\ nops' = nops + 1

UserAdd ==
    /\ Called
    /\ \E username \in Usernames, uid \in UidArgs, gid \in GidArgs,
          groupname \in GroupnameArgs, grouplist \in GroupLists :
          Return("user_add",
                 [NoArgs EXCEPT !.username = username, !.uid = uid, !.gid = gid,
                                !.groupname = groupname, !.groups = grouplist],
                 user_add(Ctx, username, NoAttrs, uid, gid, groupname, grouplist))

UserDelete ==
    /\ Called
    /\ \E username \in Usernames :
          Return("user_delete", [NoArgs EXCEPT !.username = username],
                 user_delete(Ctx, username))

UserModify ==
    /\ Called
    /\ \E username \in Usernames, uid \in UidArgs, gid \in GidArgs,
          groupname \in GroupnameArgs, groups_given \in BOOLEAN, grouplist \in GroupLists :
          /\ groups_given \/ grouplist = <<>>
          /\ Return("user_modify",
                    [NoArgs EXCEPT !.username = username, !.uid = uid, !.gid = gid,
                                   !.groupname = groupname, !.groups_given = groups_given,
                                   !.groups = grouplist],
                    user_modify(Ctx, username, NoAttrs, uid, gid, groupname, groups_given,
                                grouplist))

GroupAdd ==
    /\ Called
    /\ \E groupname \in Groupnames, gid \in GidArgs, userlist \in UserLists :
          Return("group_add",
                 [NoArgs EXCEPT !.groupname = groupname, !.gid = gid, !.users = userlist],
                 group_add(Ctx, groupname, gid, userlist))

GroupDelete ==
    /\ Called
    /\ \E groupname \in Groupnames :
          Return("group_delete", [NoArgs EXCEPT !.groupname = groupname],
                 group_delete(Ctx, groupname))

GroupModify ==
    /\ Called
    /\ \E groupname \in Groupnames, gid \in GidArgs, users_given \in BOOLEAN,
          userlist \in UserLists :
          /\ users_given \/ userlist = <<>>
          /\ Return("group_modify",
                    [NoArgs EXCEPT !.groupname = groupname, !.gid = gid,
                                   !.users_given = users_given, !.users = userlist],
                    group_modify(Ctx, groupname, gid, users_given, userlist))

GroupRename ==
    /\ Called
    /\ \E groupname \in Groupnames, new_groupname \in Groupnames :
          Return("group_rename",
                 [NoArgs EXCEPT !.groupname = groupname, !.new_groupname = new_groupname],
                 group_rename(Ctx, groupname, new_groupname))

GroupAddusers ==
    /\ Called
    /\ \E groupname \in Groupnames, usernames \in UserLists :
          Return("group_addusers",
                 [NoArgs EXCEPT !.groupname = groupname, !.users = usernames],
                 group_addusers(Ctx, groupname, usernames))

GroupDelusers ==
    /\ Called
    /\ \E groupname \in Groupnames, usernames \in UserLists :
          Return("group_delusers",
                 [NoArgs EXCEPT !.groupname = groupname, !.users = usernames],
                 group_delusers(Ctx, groupname, usernames))

\* export_ reads the directory and returns the data
Export ==
    /\ Called
    /\ Return("export_", [NoArgs EXCEPT !.data = export_(Ctx)], Ctx)

Erase ==
    /\ Called
    /\ Return("erase_", NoArgs, erase_(Ctx))

\* an exported user: username added with the given ids and no other argument,
\* and a member of the groups member_of
ExportedUser(username, uid, gid, member_of) ==
    [decode_user(Context({}, {}, 1, "s1"),
                 user_record(Context({}, {}, 1, "s1"), username, NoAttrs, uid, gid))
        EXCEPT !.memberOf = member_of]

\* the data import_ is given: the group "alice", or no group, and up to two
\* users of that group, the first of them a member of "dev" or of no group
ImportGroups == {<<>>, <<[cn |-> "alice", gidNumber |-> GID_MIN, member |-> <<>>]>>}
ImportUsers ==
    {<<>>}
    \cup {<<ExportedUser(n, UID_MIN, GID_MIN, m)>> : n \in Usernames, m \in {{}, {"dev"}}}
    \cup {<<ExportedUser(n, UID_MIN, GID_MIN, m),
            ExportedUser(CHOOSE o \in Usernames : o # n, UID_MIN + 1, GID_MIN, {})>> :
              n \in Usernames, m \in {{}, {"dev"}}}

Import ==
    /\ Called
    /\ \E groups \in ImportGroups, users \in ImportUsers :
          LET data == [users |-> users, groups |-> groups]
          IN Return("import_", [NoArgs EXCEPT !.data = data], import_(Ctx, data))

\* the command exits: nothing of the call outlives it but the directory
Exit ==
    /\ last.op # "idle"
    /\ last' = Idle
    /\ UNCHANGED <<People, Group, nops>>

Next ==
    \/ Exit
    \/ UserAdd
    \/ UserDelete
    \/ UserModify
    \/ GroupAdd
    \/ GroupDelete
    \/ GroupModify
    \/ GroupRename
    \/ GroupAddusers
    \/ GroupDelusers

Spec == Init /\ [][Next]_vars

\* the directory as `obol user add alice` leaves an empty one: the user alice
\* and her default group, each with the first id of its range
InitDefaultGroup ==
    LET r == user_add(Context({}, {}, 1, "s1"), "alice", NoAttrs, NoId, NoId, None, <<>>)
    IN /\ People = r.users
       /\ Group = r.groups
       /\ last = Idle
       /\ nops = 0

\* the same commands, run on a directory that already holds one user
SpecDefaultGroup == InitDefaultGroup /\ [][Next]_vars

\* the nine methods together with export_, import_ and erase_
NextBackup ==
    \/ Next
    \/ Export
    \/ Erase
    \/ Import

SpecBackup == Init /\ [][NextBackup]_vars

(***************************************************************************)
(* The attribute arguments of user_add and user_modify.  The directory     *)
(* holds alice and possibly bob, each added with none or all of the        *)
(* attributes; one call then adds a user with none or all of them, or      *)
(* modifies a user with up to MaxAttrsArg of them, on a day of 1..MaxDay   *)
(* and with one of two salts.                                              *)
(***************************************************************************)
AttrNames == {"cn", "sn", "given_name", "mail", "phone", "shell", "home", "expire", "password"}

Days == 1..MaxDay

Salts == {"s1", "s2"}

\* a plain password and a tagged digest made on an earlier day
Passwords ==
    {[tag |-> "", text |-> "secret", salt |-> ""],
     [tag |-> "{SSHA}", text |-> "old", salt |-> "s0"]}

\* the arguments named in S supplied: with the values number 1 when the user
\* is added, number 2 when it is modified, and the password given
AttrArgs(S, v, password) ==
    [cn |-> IF "cn" \in S THEN <<"cn1", "cn2">>[v] ELSE None,
     sn |-> IF "sn" \in S THEN <<"sn1", "sn2">>[v] ELSE None,
     given_name |-> IF "given_name" \in S THEN <<"given1", "given2">>[v] ELSE None,
     mail |-> IF "mail" \in S THEN <<"mail1", "mail2">>[v] ELSE None,
     phone |-> IF "phone" \in S THEN <<"phone1", "phone2">>[v] ELSE None,
     shell |-> IF "shell" \in S THEN <<"/bin/sh", "/bin/zsh">>[v] ELSE None,
     home |-> IF "home" \in S THEN <<"/srv", <<"home1", "home2">>[v]>> ELSE <<>>,
     expire |-> IF "expire" \in S THEN <<(<<-1, 7>>[v])>> ELSE NoExpire,
     password |-> IF "password" \in S THEN password ELSE NoPassword]

\* the clock, the salt and the password are drawn only for the calls that
\* read them
DaysRead(S) == IF "expire" \in S THEN Days ELSE {1}
SaltsRead(S) == IF "password" \in S THEN Salts ELSE {"s1"}
PasswordsRead(S) == IF "password" \in S THEN Passwords ELSE {NoPassword}

\* the directory after user_add("alice", ...), followed or not by
\* user_add("bob", ...), each with none or all of the attributes
InitAttrs ==
    /\ \E S1 \in {{}, AttrNames}, S2 \in {{}, AttrNames}, both \in BOOLEAN :
          \E password \in PasswordsRead(S1) :
             LET r1 == user_add(Context({}, {}, 1, "s1"), "alice",
                                AttrArgs(S1, 1, password), NoId, NoId, None, <<>>)
                 r2 == user_add(After(r1), "bob", AttrArgs(S2, 1, [tag |-> "", text |-> "secret", salt |-> ""]),
                                NoId, NoId, None, <<>>)
             IN /\ People = IF both THEN r2.users ELSE r1.users
                /\ Group = IF both THEN r2.groups ELSE r1.groups
    /\ last = Idle
    /\ nops = 0

\* one call is made on each of these directories
CalledAttrs == last.op = "idle" /\ nops = 0

UserAddAttrs ==
    /\ CalledAttrs
    /\ \E username \in Usernames, S \in {{}, AttrNames} :
          \E today \in DaysRead(S), password \in PasswordsRead(S) :
             LET a == AttrArgs(S, 1, password)
             IN Return("user_add", [NoArgs EXCEPT !.username = username, !.attrs = a],
                       user_add(Context(People, Group, today, "s1"), username, a,
                                NoId, NoId, None, <<>>))

UserModifyAttrs ==
    /\ CalledAttrs
    /\ \E username \in Usernames, S \in SUBSET AttrNames :
          /\ Cardinality(S) <= MaxAttrsArg
          /\ \E today \in DaysRead(S), salt \in SaltsRead(S), password \in PasswordsRead(S) :
                LET a == AttrArgs(S, 2, password)
                IN Return("user_modify", [NoArgs EXCEPT !.username = username, !.attrs = a],
                          user_modify(Context(People, Group, today, salt), username, a,
                                      NoId, NoId, None, FALSE, <<>>))

NextAttrs ==
    \/ Exit
    \/ UserAddAttrs
    \/ UserModifyAttrs

SpecAttrs == InitAttrs /\ [][NextAttrs]_vars

(***************************************************************************)
(* _next_id on its own: called once with a list of used ids and a range,   *)
(* both drawn from 1..MaxId + 1.                                           *)
(***************************************************************************)
NextIdArgs ==
    {[idlist |-> used, id_min |-> a, id_max |-> b] :
        used \in SUBSET (1..MaxId), a \in 1..MaxId, b \in 2..(MaxId + 1)}

InitNextId ==
    /\ People = {}
    /\ Group = {}
    /\ nops = 0
    /\ last \in {[op |-> "idle", args |-> a] : a \in {x \in NextIdArgs : x.id_min < x.id_max}}

NextId ==
    /\ last.op = "idle"
    /\ last' = [op |-> "_next_id", args |-> last.args,
                result |-> _next_id(last.args.idlist, last.args.id_min, last.args.id_max)]
    /\ UNCHANGED <<People, Group, nops>>

SpecNextId == InitNextId /\ [][NextId]_vars

(***************************************************************************)
(* The two allocators on their own: _next_uid and then _next_gid are       *)
(* called on a list of users and a list of groups.  The uidNumbers and the *)
(* gidNumbers are drawn from the MaxId ids that start at UID_MIN, and the  *)
(* groups hold, or not, every id below UID_MIN as well.                    *)
(***************************************************************************)
AllocatorArgs ==
    {[users |-> {[uidNumber |-> i] : i \in U},
      groups |-> {[gidNumber |-> i] : i \in low \cup G}] :
        U \in SUBSET (UID_MIN..(UID_MIN + MaxId - 1)),
        G \in SUBSET (UID_MIN..(UID_MIN + MaxId - 1)),
        low \in {{}, GID_MIN..(UID_MIN - 1)}}

InitAllocators ==
    /\ People = {}
    /\ Group = {}
    /\ nops = 0
    /\ last \in {[op |-> "idle", args |-> a] : a \in AllocatorArgs}

NextUid ==
    /\ last.op = "idle"
    /\ last' = [op |-> "_next_uid", args |-> last.args, uid |-> _next_uid(last.args.users)]
    /\ UNCHANGED <<People, Group, nops>>

NextGid ==
    /\ last.op = "_next_uid"
    /\ last' = [op |-> "_next_gid", args |-> last.args, uid |-> last.uid,
                gid |-> _next_gid(last.args.groups)]
    /\ UNCHANGED <<People, Group, nops>>

NextAllocators == NextUid \/ NextGid

SpecAllocators == InitAllocators /\ [][NextAllocators]_vars

(***************************************************************************)
(* Two user_add(username) commands, for alice and for bob, given no other  *)
(* argument, run at the same time on one directory: a step is one call of  *)
(* a command on the directory, a search or a write.  last.procs holds for  *)
(* each command the call it makes next (pc), the lists it read first       *)
(* (existing_users, existing_groups), the ids it decided on, and what it   *)
(* raised.  A helper given an empty list searches the directory again      *)
(* (users = _users or self.user_list()): that search is a step.  The       *)
(* directory is empty or holds a group named bob.                          *)
(***************************************************************************)
Procs == {1, 2}

RaceUsername(p) == IF p = 1 THEN "alice" ELSE "bob"

InitRace ==
    /\ \E bobs_group \in BOOLEAN :
          LET r == group_add(Context({}, {}, 1, "s1"), "bob", NoId, <<>>)
          IN /\ People = {}
             /\ Group = IF bobs_group THEN r.groups ELSE {}
    /\ nops = 0
    /\ last = [op |-> "user_add",
               procs |-> [p \in Procs |->
                            [pc |-> "user_list", username |-> RaceUsername(p),
                             existing_users |-> {}, existing_groups |-> {},
                             uid |-> NoId, gid |-> NoId,
                             create_group |-> FALSE, err |-> Ok]]]

Proc(p) == last.procs[p]

\* command p goes on with its record changed to next
Goes(p, next) == last' = [last EXCEPT !.procs[p] = next]

\* command p raises exc and ends
Raises(p, exc, msg, names) ==
    Goes(p, [Proc(p) EXCEPT !.pc = "raised",
                            !.err = [exc |-> exc, msg |-> msg, names |-> names]])

\* command p issues a write whose outcome is r, and calls at next when the
\* directory accepted it
Writes(p, r, next) ==
    /\ People' = r.users
    /\ Group' = r.groups
    /\ IF Failed(r) THEN Goes(p, [Proc(p) EXCEPT !.pc = "raised", !.err = r.err])
       ELSE Goes(p, [Proc(p) EXCEPT !.pc = next])

\* user_add, the username check on users and the uid of the list read first
UsernameChecked(p, existing_users, users) ==
    IF _username_exists(Proc(p).username, users)
    THEN Raises(p, "ValueError", "Username already exists", <<Proc(p).username>>)
    ELSE IF _next_uid(existing_users) = NoId
    THEN Raises(p, "ValueError", "min() arg is an empty sequence", <<>>)
    ELSE Goes(p, [Proc(p) EXCEPT !.pc = "group_list", !.existing_users = existing_users,
                                 !.uid = _next_uid(existing_users)])

\* user_add: existing_users = self.user_list()
RaceUserList(p) ==
    /\ Proc(p).pc = "user_list"
    /\ LET existing_users == user_list(Ctx)
       IN IF existing_users = {}
          THEN Goes(p, [Proc(p) EXCEPT !.pc = "_username_exists.user_list"])
          ELSE UsernameChecked(p, existing_users, existing_users)
    /\ UNCHANGED <<People, Group, nops>>

\* _username_exists, given an empty list: self.user_list()
RaceUsernameExists(p) ==
    /\ Proc(p).pc = "_username_exists.user_list"
    /\ UsernameChecked(p, {}, user_list(Ctx))
    /\ UNCHANGED <<People, Group, nops>>

\* user_add with neither groupname nor gid: the group named username is
\* looked for in _groups, its gid is taken from the list read first
PrimaryGroupChosen(p, existing_groups, _groups) ==
    LET named == {g \in existing_groups : g.cn = Proc(p).username}
        chosen(gid, create_group) ==
            Goes(p, [Proc(p) EXCEPT !.pc = "add_s", !.existing_groups = existing_groups,
                                    !.gid = gid, !.create_group = create_group])
    IN IF _groupname_exists(Proc(p).username, _groups)
       THEN IF named = {}
            THEN Raises(p, "IndexError", "list index out of range", <<>>)
            ELSE chosen(gid_of_groupname(Proc(p).username, existing_groups), FALSE)
       ELSE IF _next_gid(existing_groups) = NoId
       THEN Raises(p, "ValueError", "min() arg is an empty sequence", <<>>)
       ELSE chosen(_next_gid(existing_groups), TRUE)

\* user_add: existing_groups = self.group_list()
RaceGroupList(p) ==
    /\ Proc(p).pc = "group_list"
    /\ LET existing_groups == group_list(Ctx)
       IN IF existing_groups = {}
          THEN Goes(p, [Proc(p) EXCEPT !.pc = "_groupname_exists.group_list"])
          ELSE PrimaryGroupChosen(p, existing_groups, existing_groups)
    /\ UNCHANGED <<People, Group, nops>>

\* _groupname_exists, given an empty list: self.group_list()
RaceGroupnameExists(p) ==
    /\ Proc(p).pc = "_groupname_exists.group_list"
    /\ PrimaryGroupChosen(p, {}, group_list(Ctx))
    /\ UNCHANGED <<People, Group, nops>>

\* user_add: self.conn.add_s(dn, user_record)
RaceAddUser(p) ==
    /\ Proc(p).pc = "add_s"
    /\ Writes(p, add_s_user(Ctx, user_record(Ctx, Proc(p).username, NoAttrs,
                                             Proc(p).uid, Proc(p).gid)),
              IF Proc(p).create_group THEN "group_add.group_list"
              ELSE "group_addusers.group_show")
    /\ UNCHANGED nops

\* group_add, "Ensure groupname's uniqueness"
GroupnameUnique(p, _groups, next) ==
    IF _groupname_exists(Proc(p).username, _groups)
    THEN Raises(p, "ValueError", "Groupname already exists", <<Proc(p).username>>)
    ELSE Goes(p, [Proc(p) EXCEPT !.pc = next])

\* group_add, "Ensure gid's uniqueness", the gid being given
GidUnique(p, _groups) ==
    IF _gid_exists(Proc(p).gid, _groups)
    THEN Raises(p, "ValueError", "GID already exists", <<Proc(p).gid>>)
    ELSE Goes(p, [Proc(p) EXCEPT !.pc = "group_add.user_list"])

\* group_add(groupname, gid, [username]): existing_groups = self.group_list()
RaceGroupAddGroupList(p) ==
    /\ Proc(p).pc = "group_add.group_list"
    /\ LET existing_groups == group_list(Ctx)
       IN IF existing_groups = {}
          THEN Goes(p, [Proc(p) EXCEPT !.pc = "group_add._groupname_exists.group_list"])
          ELSE IF _groupname_exists(Proc(p).username, existing_groups)
          THEN GroupnameUnique(p, existing_groups, "raised")
          ELSE GidUnique(p, existing_groups)
    /\ UNCHANGED <<People, Group, nops>>

\* group_add: _groupname_exists, given an empty list, calls self.group_list()
RaceGroupAddGroupnameExists(p) ==
    /\ Proc(p).pc = "group_add._groupname_exists.group_list"
    /\ GroupnameUnique(p, group_list(Ctx), "group_add._gid_exists.group_list")
    /\ UNCHANGED <<People, Group, nops>>

\* group_add: _gid_exists, given an empty list, calls self.group_list()
RaceGroupAddGidExists(p) ==
    /\ Proc(p).pc = "group_add._gid_exists.group_list"
    /\ GidUnique(p, group_list(Ctx))
    /\ UNCHANGED <<People, Group, nops>>

\* group_add: existing_usernames, from self.user_list()
RaceGroupAddUserList(p) ==
    /\ Proc(p).pc = "group_add.user_list"
    /\ IF Proc(p).username \notin {u.uid : u \in user_list(Ctx)}
       THEN Raises(p, "ValueError", "Users do not exist", <<Proc(p).username>>)
       ELSE Goes(p, [Proc(p) EXCEPT !.pc = "group_add.add_s"])
    /\ UNCHANGED <<People, Group, nops>>

\* group_add: self.conn.add_s(group_dn, group_record)
RaceGroupAddAddGroup(p) ==
    /\ Proc(p).pc = "group_add.add_s"
    /\ Writes(p, add_s_group(Ctx, [cn |-> Proc(p).username, gidNumber |-> Proc(p).gid,
                                   member |-> <<>>]),
              "group_add.group_addusers.group_show")
    /\ UNCHANGED nops

\* group_addusers(groupname, [username]), called by group_add (the pc starts
\* with group_add) and then by the loop of user_add: self.group_show, and
\* the return when the user is a member already
RaceAddusersGroupShow(p) ==
    /\ Proc(p).pc \in {"group_add.group_addusers.group_show", "group_addusers.group_show"}
    /\ LET in_group_add == Proc(p).pc = "group_add.group_addusers.group_show"
       IN IF ~ group_show_found(Ctx, Proc(p).username)
          THEN Raises(p, "LookupError", "Group does not exist", <<Proc(p).username>>)
          ELSE IF Proc(p).username \in Range(group_show(Ctx, Proc(p).username).member)
          THEN Goes(p, [Proc(p) EXCEPT !.pc = IF in_group_add THEN "group_addusers.group_show"
                                              ELSE "done"])
          ELSE Goes(p, [Proc(p) EXCEPT !.pc = IF in_group_add
                                              THEN "group_add.group_addusers.user_list"
                                              ELSE "group_addusers.user_list"])
    /\ UNCHANGED <<People, Group, nops>>

\* group_addusers: existing_usernames, from self.user_list()
RaceAddusersUserList(p) ==
    /\ Proc(p).pc \in {"group_add.group_addusers.user_list", "group_addusers.user_list"}
    /\ IF Proc(p).username \notin {u.uid : u \in user_list(Ctx)}
       THEN Raises(p, "ValueError", "Users do not exist", <<Proc(p).username>>)
       ELSE Goes(p, [Proc(p) EXCEPT !.pc = IF @ = "group_addusers.user_list"
                                           THEN "group_addusers.modify_s"
                                           ELSE "group_add.group_addusers.modify_s"])
    /\ UNCHANGED <<People, Group, nops>>

\* group_addusers: self.conn.modify_s(group_dn, mod_attrs)
RaceAddusersModify(p) ==
    /\ Proc(p).pc \in {"group_add.group_addusers.modify_s", "group_addusers.modify_s"}
    /\ Writes(p, modify_s_group(Ctx, Proc(p).username,
                                <<[op |-> "MOD_ADD", attr |-> "member",
                                   val |-> user_dn(Proc(p).username)]>>),
              IF Proc(p).pc = "group_addusers.modify_s" THEN "done"
              ELSE "group_addusers.group_show")
    /\ UNCHANGED nops

NextRace ==
    \E p \in Procs :
       \/ RaceUserList(p)
       \/ RaceUsernameExists(p)
       \/ RaceGroupList(p)
       \/ RaceGroupnameExists(p)
       \/ RaceAddUser(p)
       \/ RaceGroupAddGroupList(p)
       \/ RaceGroupAddGroupnameExists(p)
       \/ RaceGroupAddGidExists(p)
       \/ RaceGroupAddUserList(p)
       \/ RaceGroupAddAddGroup(p)
       \/ RaceAddusersGroupShow(p)
       \/ RaceAddusersUserList(p)
       \/ RaceAddusersModify(p)

SpecRace == InitRace /\ [][NextRace]_vars

(***************************************************************************)
(* Vocabulary of the properties.                                           *)
(***************************************************************************)
Returned(op) == last.op = op /\ last.err.exc = "none"

GroupNamed(G, groupname) == CHOOSE g \in G : g.cn = groupname

UserNamed(P, username) == CHOOSE u \in P : u.uid = username

\* the usernames in the member list of the group named groupname in G
Members(G, groupname) ==
    IF \E g \in G : g.cn = groupname
    THEN {dn.val : dn \in Range(GroupNamed(G, groupname).member)}
    ELSE {}

(***************************************************************************)
(* C1: every existing user's gidNumber is the gidNumber of exactly one     *)
(* existing group, after any sequence of calls from the empty directory.   *)
(* Refuted: group_delete and user_delete look at the member list only.     *)
(***************************************************************************)
C1_PrimaryGroupExists ==
    \A u \in People : Cardinality({g \in Group : g.gidNumber = u.gidNumber}) = 1

(***************************************************************************)
(* C2: every name in every group's member list is the uid of an existing   *)
(* user; in particular no member list names a deleted user.  Refuted:      *)
(* user_delete edits no member list.                                       *)
(***************************************************************************)
C2_MembersExist ==
    \A g \in Group : \A dn \in Range(g.member) : \E u \in People : u.uid = dn.val

(***************************************************************************)
(* C3: no two users share a uid or a uidNumber, no two groups share a cn   *)
(* or a gidNumber, for supplied and for allocated ids.                     *)
(***************************************************************************)
C3_UniqueKeys ==
    /\ \A u, v \in People : (u.uid = v.uid \/ u.uidNumber = v.uidNumber) => u = v
    /\ \A g, h \in Group : (g.cn = h.cn \/ g.gidNumber = h.gidNumber) => g = h

\* two users and two groups, the last user added with a supplied uid while
\* the other one holds an allocated uid
C3_Witness ==
    /\ Returned("user_add")
    /\ last.args.uid # NoId
    /\ Cardinality(People) = 2
    /\ Cardinality(Group) >= 2
    /\ \E u \in People : u.uidNumber # last.args.uid

(***************************************************************************)
(* C4: user_delete(u) deletes the group named u only when no remaining     *)
(* user has it as primary group and its member list holds no user other    *)
(* than u.  Refuted: only the member list is looked at.                    *)
(***************************************************************************)
C4_DefaultGroupDeletion ==
    [][(/\ last'.op = "user_delete"
        /\ last'.err.exc = "none"
        /\ \E g \in Group : g.cn = last'.args.username
        /\ ~ \E g \in Group' : g.cn = last'.args.username)
       => LET g == GroupNamed(Group, last'.args.username)
          IN /\ ~ \E u \in People' : u.gidNumber = g.gidNumber
             /\ Members(Group, g.cn) \subseteq {last'.args.username}]_vars

(***************************************************************************)
(* C5: group_delete of a group with a non-empty member list raises the     *)
(* "has members" error, group_delete of an absent group raises the lookup  *)
(* error, and both leave the directory as it was and issue no write.       *)
(***************************************************************************)
C5_GroupDeleteRefused ==
    \A groupname \in Groupnames :
        LET r == group_delete(Ctx, groupname)
            unchanged == r.users = People /\ r.groups = Group /\ r.log = <<>>
        IN /\ (~ \E g \in Group : g.cn = groupname)
                => /\ r.err.exc = "LookupError"
                   /\ r.err.msg = "Group does not exist"
                   /\ unchanged
           /\ ((\E g \in Group : g.cn = groupname) /\ Members(Group, groupname) # {})
                => /\ r.err.exc = "ValueError"
                   /\ r.err.msg = "Group has members"
                   /\ unchanged

\* a group_delete was refused because the group, still there, has members
C5_Witness ==
    /\ last.op = "group_delete"
    /\ last.err.msg = "Group has members"
    /\ Members(Group, last.args.groupname) # {}

(***************************************************************************)
(* C6: group_modify(g, users=U), no current member of g having g as its    *)
(* primary group, leaves g's member set equal to U.  Refuted: every        *)
(* current member is removed, also those listed in U.                      *)
(***************************************************************************)
C6_GroupModifyReplaces ==
    [][(/\ last'.op = "group_modify"
        /\ last'.err.exc = "none"
        /\ last'.args.users_given
        /\ \A m \in Members(Group, last'.args.groupname) :
              \A u \in People : u.uid = m =>
                  u.gidNumber # GroupNamed(Group, last'.args.groupname).gidNumber)
       => Members(Group', last'.args.groupname) = Range(last'.args.users)]_vars

(***************************************************************************)
(* C7: user_modify(u, groups=D), no primary-group argument, is a set       *)
(* replacement: afterwards u is a member of a group h other than its       *)
(* primary group iff h is in D, for every supplied D, the empty list       *)
(* included.  Refuted: an empty list is treated as no list.                *)
(***************************************************************************)
C7_UserModifyReplaces ==
    [][(/\ last'.op = "user_modify"
        /\ last'.err.exc = "none"
        /\ last'.args.groups_given
        /\ last'.args.groupname = None
        /\ last'.args.gid = NoId)
       => LET u == UserNamed(People', last'.args.username)
          IN \A h \in Group' :
                h.gidNumber # u.gidNumber
                    => (u.uid \in Members(Group', h.cn) <=> h.cn \in Range(last'.args.groups))]_vars

(***************************************************************************)
(* C8: after a successful user_add(u, ...), u is in the member list of its *)
(* primary group (given by name, given by gid, or auto-created) and of     *)
(* every group named in groups.                                            *)
(***************************************************************************)
C8_UserAddJoins ==
    Returned("user_add") =>
        LET u == UserNamed(People, last.args.username)
        IN /\ \E u1 \in People : u1.uid = last.args.username
           /\ \E g \in Group : g.gidNumber = u.gidNumber
           /\ \A g \in Group : g.gidNumber = u.gidNumber => u.uid \in Members(Group, g.cn)
           /\ \A i \in 1..Len(last.args.groups) :
                 /\ \E g \in Group : g.cn = last.args.groups[i]
                 /\ u.uid \in Members(Group, last.args.groups[i])

\* a user added with a primary group given by name and another group in groups
C8_Witness ==
    /\ Returned("user_add")
    /\ last.args.groupname # None
    /\ last.args.groups # <<>>
    /\ last.args.groups[1] # last.args.groupname

(***************************************************************************)
(* C9 as stated: user_add(u, groupname=g), g not in groups, leaves g's     *)
(* member list unchanged.  Refuted: the primary group is joined as well.   *)
(***************************************************************************)
C9_PrimaryGroupNotJoined ==
    [][(/\ last'.op = "user_add"
        /\ last'.err.exc = "none"
        /\ last'.args.groupname # None
        /\ last'.args.groupname \notin Range(last'.args.groups))
       => GroupNamed(Group', last'.args.groupname).member
              = GroupNamed(Group, last'.args.groupname).member]_vars

(***************************************************************************)
(* C9 amended: user_add(u, groupname=g) with g existing appends u to g's   *)
(* member list whether or not g is in groups (the list is the old one plus *)
(* u), and the groups that are neither g nor named in groups are           *)
(* unchanged.                                                              *)
(***************************************************************************)
C9_PrimaryGroupJoined ==
    [][(/\ last'.op = "user_add"
        /\ last'.err.exc = "none"
        /\ last'.args.groupname # None)
       => /\ Members(Group', last'.args.groupname)
                = Members(Group, last'.args.groupname) \cup {last'.args.username}
          /\ \A h \in Group :
                (h.cn # last'.args.groupname /\ h.cn \notin Range(last'.args.groups))
                    => h \in Group']_vars

\* a user added with groupname=g, g absent from groups and g already holding
\* another member
C9_Witness ==
    /\ Returned("user_add")
    /\ last.args.groupname # None
    /\ last.args.groupname \notin Range(last.args.groups)
    /\ Cardinality(Members(Group, last.args.groupname)) >= 2

(***************************************************************************)
(* C10: user_add(u) with neither groupname nor gid, no group named u       *)
(* existing, creates the group u with the smallest gidNumber of the group  *)
(* range that no existing group uses, gives u that gidNumber, and leaves   *)
(* the new group's member list equal to {u}.                               *)
(***************************************************************************)
C10_DefaultGroupCreated ==
    [][(/\ last'.op = "user_add"
        /\ last'.err.exc = "none"
        /\ last'.args.groupname = None
        /\ last'.args.gid = NoId
        /\ ~ \E g \in Group : g.cn = last'.args.username)
       => /\ \E g \in Group' : g.cn = last'.args.username
          /\ LET g == GroupNamed(Group', last'.args.username)
                 used == {h.gidNumber : h \in Group}
             IN /\ g.gidNumber \in GID_MIN..(GID_MAX - 1)
                /\ g.gidNumber \notin used
                /\ \A i \in GID_MIN..(g.gidNumber - 1) : i \in used
                /\ UserNamed(People', last'.args.username).gidNumber = g.gidNumber
                /\ g.member = <<user_dn(last'.args.username)>>]_vars

\* a default group was created while another group held the first id of the range
C10_Witness ==
    /\ Returned("user_add")
    /\ last.args.groupname = None
    /\ last.args.gid = NoId
    /\ \E g \in Group :
          /\ g.cn = last.args.username
          /\ g.gidNumber > GID_MIN
          /\ g.member = <<user_dn(last.args.username)>>
          /\ Len(last.log) >= 2
          /\ last.log[2] = [call |-> "add_s", dn |-> group_dn(g.cn), mods |-> <<>>]

(***************************************************************************)
(* C11: on any directory where user_add(u) without group arguments         *)
(* creates the group u, user_delete(u) called next removes the user u and  *)
(* the group u.  Refuted: no write takes u out of the member list, so the  *)
(* group is found with one member and kept.                                *)
(***************************************************************************)
C11_DefaultGroupDeleted ==
    \A u \in Usernames :
        LET r1 == user_add(Ctx, u, NoAttrs, NoId, NoId, None, <<>>)
            r2 == user_delete(After(r1), u)
        IN (~ Failed(r1) /\ ~ \E g \in Group : g.cn = u)
              => /\ ~ Failed(r2)
                 /\ ~ \E x \in user_list(r2) : x.uid = u
                 /\ ~ \E g \in group_list(r2) : g.cn = u

(***************************************************************************)
(* C12: user_add(u, groupname=g, gid=n), g an existing group, n the        *)
(* gidNumber of an existing group other than g, raises the "does not have  *)
(* gid" ValueError and writes nothing.  Refuted: the supplied gid is       *)
(* overwritten by g's gidNumber before the two are compared.               *)
(***************************************************************************)
C12_GroupnameGidConflict ==
    [][(/\ last'.op = "user_add"
        /\ last'.args.groupname # None
        /\ last'.args.gid # NoId
        /\ \E g \in Group : g.cn = last'.args.groupname /\ g.gidNumber # last'.args.gid
        /\ \E h \in Group : h.gidNumber = last'.args.gid
        /\ ~ \E u \in People : u.uid = last'.args.username
        /\ ~ \E u \in People : u.uidNumber = last'.args.uid)
       => /\ last'.err.exc = "ValueError"
          /\ last'.err.msg = "Group does not have gid"
          /\ last'.log = <<>>
          /\ People' = People
          /\ Group' = Group]_vars

(***************************************************************************)
(* C13: user_add(u, groupname=g) alone and user_add(u, gid=n) alone, u a   *)
(* new username and the uid free: when the group named g (the group with   *)
(* gidNumber n) exists, the user u is created with that group's gidNumber; *)
(* when it does not exist, the call raises ValueError, writes nothing and  *)
(* creates no user.                                                        *)
(***************************************************************************)
C13_PrimaryGroupFromOneArgument ==
    [][(/\ last'.op = "user_add"
        /\ (last'.args.groupname # None) # (last'.args.gid # NoId)
        /\ ~ \E u \in People : u.uid = last'.args.username
        /\ ~ \E u \in People : u.uidNumber = last'.args.uid)
       => LET named == {g \in Group : \/ g.cn = last'.args.groupname
                                      \/ g.gidNumber = last'.args.gid}
          IN IF named # {}
             THEN \E u \in People' : /\ u.uid = last'.args.username
                                     /\ \A g \in named : u.gidNumber = g.gidNumber
             ELSE /\ last'.err.exc = "ValueError"
                  /\ last'.err.msg \in {"Group does not exist", "GID does not exist"}
                  /\ last'.log = <<>>
                  /\ People' = People
                  /\ Group' = Group]_vars

\* a user added with gid= alone, carrying the gidNumber of a group that is
\* not named like the user
C13_Witness ==
    /\ Returned("user_add")
    /\ last.args.groupname = None
    /\ last.args.gid # NoId
    /\ \E u \in People : u.uid = last.args.username /\ u.gidNumber = last.args.gid
    /\ \E g \in Group : g.gidNumber = last.args.gid /\ g.cn # last.args.username

(***************************************************************************)
(* C14: _next_id(used, id_min, id_max), id_min < id_max, returns the       *)
(* smallest integer of [id_min, id_max) that is not in used, and raises    *)
(* (returns no id) when used covers the whole range; group_add without gid *)
(* on the empty directory therefore assigns gidNumber 150.                 *)
(***************************************************************************)
C14_NextIdSmallestFree ==
    /\ last.op = "_next_id" =>
          LET free == {i \in last.args.id_min..(last.args.id_max - 1) : i \notin last.args.idlist}
          IN IF free = {}
             THEN last.result = NoId
             ELSE /\ last.result \in free
                  /\ \A i \in free : last.result <= i
    /\ LET r == group_add(Context({}, {}, 1, "s1"), "dev", NoId, <<>>)
       IN /\ ~ Failed(r)
          /\ r.groups = {[cn |-> "dev", gidNumber |-> 150, member |-> <<>>]}

\* the first ids of the range are used, a later one is free and a still
\* later one is used again
C14_Witness ==
    /\ last.op = "_next_id"
    /\ last.args.id_min \in last.args.idlist
    /\ last.result > last.args.id_min
    /\ \E i \in last.args.idlist : i > last.result /\ i < last.args.id_max

\* the names of s are pairwise different
NoDuplicates(s) == Cardinality(Range(s)) = Len(s)

(***************************************************************************)
(* C15: group_addusers(g, U), g an existing group and U distinct names of  *)
(* existing users, returns without error and leaves g's member set equal   *)
(* to the old one plus U, also when only some names of U are members       *)
(* already.  Refuted: a member value is added for every name of U, and the *)
(* directory refuses to add a value that is present.                       *)
(***************************************************************************)
C15_AddusersUnion ==
    [][(/\ last'.op = "group_addusers"
        /\ \E g \in Group : g.cn = last'.args.groupname
        /\ NoDuplicates(last'.args.users)
        /\ \A n \in Range(last'.args.users) : \E u \in People : u.uid = n)
       => /\ last'.err.exc = "none"
          /\ Members(Group', last'.args.groupname)
                = Members(Group, last'.args.groupname) \cup Range(last'.args.users)]_vars

(***************************************************************************)
(* C16: group_addusers is idempotent: on any directory, for an existing    *)
(* group g and distinct names U of existing users, group_addusers(g, U)    *)
(* called a second time right after the first issues no write, raises no   *)
(* error and leaves the member set the first call left.  Refuted: when     *)
(* some names of U are members and others are not, the first call is       *)
(* refused by the directory and the second call repeats the same write.    *)
(***************************************************************************)
C16_AddusersIdempotent ==
    \A g \in Group : \A U \in UserLists :
        (NoDuplicates(U) /\ \A n \in Range(U) : \E u \in People : u.uid = n)
            => LET r1 == group_addusers(Ctx, g.cn, U)
                   r2 == group_addusers(After(r1), g.cn, U)
               IN /\ ~ Failed(r2)
                  /\ r2.log = <<>>
                  /\ Members(r2.groups, g.cn) = Members(r1.groups, g.cn)

(***************************************************************************)
(* C17: group_delusers(g, U), g an existing group and U distinct names of  *)
(* existing users, returns without error and leaves g's member set equal   *)
(* to the old one minus U; a name of U that is not a member is skipped.    *)
(* Refuted: a member value is deleted for every name of U, and the         *)
(* directory refuses to delete a value that is absent.                     *)
(***************************************************************************)
C17_DelusersDifference ==
    [][(/\ last'.op = "group_delusers"
        /\ \E g \in Group : g.cn = last'.args.groupname
        /\ NoDuplicates(last'.args.users)
        /\ \A n \in Range(last'.args.users) : \E u \in People : u.uid = n)
       => /\ last'.err.exc = "none"
          /\ Members(Group', last'.args.groupname)
                = Members(Group, last'.args.groupname) \ Range(last'.args.users)]_vars

(***************************************************************************)
(* C18: group_add(g, users=U), group_addusers(g, U), group_delusers(g, U)  *)
(* and group_modify(g, users=U), called with a valid g (a new name and no  *)
(* taken gid for group_add, an existing group for the others, no gid for   *)
(* group_modify) and a U holding a name that is no existing user (for      *)
(* group_addusers: U not wholly made of members), raise the "Users do not  *)
(* exist" error listing every unknown name of U, issue no write and leave  *)
(* the directory as it was; group_add does not create g.                   *)
(***************************************************************************)
C18_UnknownUsersRejected ==
    [][LET a == last'.args
           unknown == {n \in Range(a.users) : ~ \E u \in People : u.uid = n}
           exists == \E g \in Group : g.cn = a.groupname
           valid ==
               \/ /\ last'.op = "group_add"
                  /\ ~ exists
                  /\ ~ \E g \in Group : g.gidNumber = a.gid
               \/ /\ last'.op = "group_addusers"
                  /\ exists
                  /\ ~ (Range(a.users) \subseteq Members(Group, a.groupname))
               \/ /\ last'.op = "group_delusers"
                  /\ exists
               \/ /\ last'.op = "group_modify"
                  /\ exists
                  /\ a.users_given
                  /\ a.gid = NoId
       IN (valid /\ unknown # {})
             => /\ last'.err.exc \in {"ValueError", "LookupError"}
                /\ last'.err.msg = "Users do not exist"
                /\ Range(last'.err.names) = unknown
                /\ last'.log = <<>>
                /\ People' = People
                /\ Group' = Group]_vars

\* group_add refused for two unknown names, both listed, and no group made
C18_Witness ==
    /\ last.op = "group_add"
    /\ last.err.msg = "Users do not exist"
    /\ Cardinality(Range(last.err.names)) = 2
    /\ ~ \E g \in Group : g.cn = last.args.groupname

C21_PartialUpdate ==
    [][Returned("user_modify")' =>
          LET a == last'.args.attrs
              name == last'.args.username
              before == user_show(Context(People, Group, 1, "s1"), name)
              after == user_show(Context(People', Group', 1, "s1"), name)
              kept(supplied, value, attr) ==
                  after[attr] = IF supplied THEN value ELSE before[attr]
          IN /\ kept(a.cn # None, a.cn, "cn")
             /\ kept(a.sn # None, a.sn, "sn")
             /\ kept(a.given_name # None, a.given_name, "givenName")
             /\ kept(a.mail # None, a.mail, "mail")
             /\ kept(a.phone # None, a.phone, "telephoneNumber")
             /\ kept(a.shell # None, a.shell, "loginShell")
             /\ kept(a.home # <<>>, a.home, "homeDirectory")
             /\ a.expire = NoExpire => after.shadowExpire = before.shadowExpire
             /\ a.password = NoPassword => after.userPassword = before.userPassword
             /\ after.uid = before.uid
             /\ after.uidNumber = before.uidNumber
             /\ after.gidNumber = before.gidNumber
             /\ after.shadowLastChange = before.shadowLastChange
             /\ after.memberOf = before.memberOf
             /\ \A v \in People : v.uid # name => v \in People'
             /\ \A v \in People' : v.uid # name => v \in People]_vars

\* a user added with every attribute has just had two of them modified, the
\* mail among them and the cn not, while another user exists
C21_Witness ==
    /\ Returned("user_modify")
    /\ last.args.attrs.mail # None
    /\ last.args.attrs.cn = None
    /\ Cardinality({n \in DOMAIN last.args.attrs : last.args.attrs[n] # NoAttrs[n]}) = 2
    /\ \E u \in People : /\ u.uid = last.args.username
                         /\ u.cn = "cn1"
                         /\ u.mail = last.args.attrs.mail
    /\ Cardinality(People) = 2

(***************************************************************************)
(* C22: the groups= difference of user_modify leaves the primary group     *)
(* alone.  For every user_modify(u, groups=D) on an existing user u, made  *)
(* with neither a gid nor a groupname, whether it returns or raises: each  *)
(* group that has u's gidNumber and is not named in D has u in its member  *)
(* list after the call exactly if it had before.                           *)
(***************************************************************************)
C22_PrimaryGroupUntouched ==
    [][(/\ last'.op = "user_modify"
        /\ last'.args.groups_given
        /\ last'.args.gid = NoId
        /\ last'.args.groupname = None
        /\ \E u \in People : u.uid = last'.args.username) =>
          LET name == last'.args.username
              u == UserNamed(People, name)
          IN \A p \in Group :
                (p.gidNumber = u.gidNumber /\ p.cn \notin Range(last'.args.groups)) =>
                   /\ \E q \in Group' : q.cn = p.cn
                   /\ (name \in Members(Group', p.cn)) <=> (name \in Members(Group, p.cn))]_vars

\* user_modify(u, groups=D) has just returned and changed a member list,
\* while u is a member of its primary group, which D does not name
C22_Witness ==
    /\ Returned("user_modify")
    /\ last.args.groups_given
    /\ last.args.gid = NoId
    /\ last.args.groupname = None
    /\ \E w \in 1..Len(last.log), g \in Groupnames : last.log[w].dn = group_dn(g)
    /\ \E u \in People, p \in Group :
          /\ u.uid = last.args.username
          /\ p.gidNumber = u.gidNumber
          /\ p.cn \notin Range(last.args.groups)
          /\ u.uid \in Members(Group, p.cn)

(***************************************************************************)
(* C23: group_rename(old, new).  When old exists and new does not, the     *)
(* call returns, the entry of old is the same entry under the name new     *)
(* (gidNumber and member list kept), no group is named old, every other    *)
(* group and every user is unchanged.  When old is absent the call raises  *)
(* LookupError, and when old exists and new is taken (new = old included)  *)
(* it raises ValueError "already exists"; in both cases nothing is written *)
(* and the directory is unchanged.                                         *)
(***************************************************************************)
C23_GroupRename ==
    [][last'.op = "group_rename" =>
          LET old == last'.args.groupname
              new == last'.args.new_groupname
              names == {g.cn : g \in Group}
          IN /\ (old \in names /\ new \notin names) =>
                   /\ last'.err = Ok
                   /\ Group' = {IF g.cn = old THEN [g EXCEPT !.cn = new] ELSE g : g \in Group}
                   /\ ~ \E g \in Group' : g.cn = old
                   /\ People' = People
             /\ old \notin names =>
                   /\ last'.err.exc = "LookupError"
                   /\ last'.log = <<>>
                   /\ Group' = Group /\ People' = People
             /\ (old \in names /\ new \in names) =>
                   /\ last'.err.exc = "ValueError"
                   /\ last'.err.msg = "Group already exists"
                   /\ last'.log = <<>>
                   /\ Group' = Group /\ People' = People]_vars

\* a group with a member has just been renamed
C23_Witness ==
    /\ Returned("group_rename")
    /\ last.args.groupname # last.args.new_groupname
    /\ Members(Group, last.args.new_groupname) # {}
    /\ ~ \E g \in Group : g.cn = last.args.groupname

(***************************************************************************)
(* C26: from every directory reached through the public operations,        *)
(* erase_() completes without raising and leaves no user and no group.     *)
(* Refuted: user_delete leaves the deleted user in the member lists, and   *)
(* group_delete refuses a group that has members.                          *)
(***************************************************************************)
C26_EraseEmpties ==
    [][last'.op = "erase_" =>
          /\ last'.err = Ok
          /\ People' = {}
          /\ Group' = {}]_vars

(***************************************************************************)
(* C24: the round trip.  On every directory reached through the public     *)
(* operations, with data = export_(), whenever the erase_() that follows   *)
(* completes, import_(data) completes and a second export_() gives data    *)
(* again: the same users with the same value of every field, memberOf      *)
(* included, and the same groups with the same gidNumber and members.      *)
(* Refuted: user_add, which import_ calls, joins the user to its primary   *)
(* group whether or not memberOf names it.                                 *)
(***************************************************************************)
C24_RoundTrip ==
    last.op = "idle" =>
       LET data == export_(Ctx)
           erased == erase_(Ctx)
           imported == import_(After(erased), data)
       IN ~ Failed(erased) =>
             /\ erased.users = {} /\ erased.groups = {}
             /\ ~ Failed(imported)
             /\ export_(After(imported)) = data

(***************************************************************************)
(* C25: import_(data) is best effort per entity.  A failure while adding   *)
(* one group or one user is reported for that entity and every later       *)
(* entity of data is still attempted; the two loops of import_ are left    *)
(* early only by an exception that leaves import_, so this is: import_     *)
(* never raises.                                                           *)
(* Refuted: the loop over the users catches ValueError only.               *)
(***************************************************************************)
C25_ImportBestEffort ==
    [][last'.op = "import_" => last'.err = Ok]_vars

(***************************************************************************)
(* C27: the ranges of _next_uid and _next_gid are disjoint: whatever the   *)
(* users and groups they are called on, the id the one returns is not the  *)
(* id the other returns.                                                   *)
(* Refuted: the ranges are [1050, 10000) and [150, 10000).                 *)
(***************************************************************************)
C27_DisjointRanges ==
    last.op = "_next_gid" =>
       \/ last.uid = NoId
       \/ last.gid = NoId
       \/ last.uid # last.gid

(***************************************************************************)
(* C28: passwords are stored tagged.  After a user_add or user_modify that *)
(* returns and was given a password, the userPassword of the user carries  *)
(* the {SSHA} tag; a password given with the tag is stored as it was       *)
(* given; and _make_secret applied to its own result returns that result,  *)
(* whatever the salts.  A user given no password has none or keeps its     *)
(* tagged one.                                                             *)
(***************************************************************************)
C28_PasswordsTagged ==
    [][(Returned("user_add")' \/ Returned("user_modify")') =>
          LET password == last'.args.attrs.password
              user == UserNamed(People', last'.args.username)
          IN /\ password # NoPassword =>
                   /\ user.userPassword.tag = "{SSHA}"
                   /\ password.tag = "{SSHA}" => user.userPassword = password
                   /\ \A s1 \in Salts, s2 \in Salts :
                         _make_secret(_make_secret(password, s1), s2) = _make_secret(password, s1)
             /\ \A u \in People' : u.userPassword = NoPassword \/ u.userPassword.tag = "{SSHA}"]_vars

\* user_modify has just stored a password that was given with the tag, and a
\* user holds a password that was hashed when it was given plain
C28_Witness ==
    /\ Returned("user_modify")
    /\ last.args.attrs.password.tag = "{SSHA}"
    /\ UserNamed(People, last.args.username).userPassword = last.args.attrs.password
    /\ \E u \in People : u.userPassword.tag = "{SSHA}" /\ u.userPassword.text = "secret"

(***************************************************************************)
(* C29: precondition failures are raised before the first write.  A        *)
(* user_add whose username exists, whose uid is in use, whose groupname    *)
(* does not exist or whose gid (given without groupname) does not exist; a *)
(* group_add whose groupname or gid is in use; a user_delete of an absent  *)
(* user; and a user_modify whose user, groupname, gid (given without       *)
(* groupname) or one of whose groups does not exist: each raises, issues   *)
(* no write and leaves the directory exactly as it was.                    *)
(***************************************************************************)
C29_ChecksBeforeWrites ==
    [][LET a == last'.args
           op == last'.op
           usernames == {u.uid : u \in People}
           uids == {u.uidNumber : u \in People}
           groupnames == {g.cn : g \in Group}
           gids == {g.gidNumber : g \in Group}
           no_group == \/ a.groupname # None /\ a.groupname \notin groupnames
                       \/ a.groupname = None /\ a.gid # NoId /\ a.gid \notin gids
           rejected ==
               \/ /\ op = "user_add"
                  /\ \/ a.username \in usernames
                     \/ a.uid # NoId /\ a.uid \in uids
                     \/ no_group
               \/ /\ op = "group_add"
                  /\ \/ a.groupname \in groupnames
                     \/ a.gid # NoId /\ a.gid \in gids
               \/ /\ op = "user_delete"
                  /\ a.username \notin usernames
               \/ /\ op = "user_modify"
                  /\ \/ a.username \notin usernames
                     \/ no_group
                     \/ a.groups_given /\ \E g \in Range(a.groups) : g \notin groupnames
       IN rejected =>
             /\ last'.err # Ok
             /\ last'.log = <<>>
             /\ People' = People
             /\ Group' = Group]_vars

\* user_modify has just been rejected for a name in groups that is not a
\* group, on an existing user of a directory that has groups
C29_Witness ==
    /\ last.op = "user_modify"
    /\ last.err.exc = "ValueError"
    /\ last.err.msg = "Groups do not exist"
    /\ last.log = <<>>
    /\ \E u \in People : u.uid = last.args.username
    /\ Group # {}

(***************************************************************************)
(* C30: user_add does not roll back.  When user_add(u, groups=G) raises    *)
(* after the directory has accepted its first write, the entry of u, then  *)
(* the entry of u is in the directory, every other user is as before, and  *)
(* every write of the call that the directory accepted still shows: a      *)
(* group the call added exists, and u is a member of every group a join of *)
(* the call added it to.  The writes of the call are additions only.       *)
(***************************************************************************)
C30_NoRollback ==
    [][(/\ last'.op = "user_add"
        /\ last'.err # Ok
        /\ last'.log # <<>>
        /\ Len(last'.log) > 1 \/ last'.err.exc # "LDAPError") =>
          LET name == last'.args.username
              log == last'.log
              \* a write that the directory refused is the last of the call
              accepted == {i \in 1..Len(log) : i < Len(log) \/ last'.err.exc # "LDAPError"}
          IN /\ log[1] = [call |-> "add_s", dn |-> user_dn(name), mods |-> <<>>]
             /\ \E u \in People' : u.uid = name
             /\ People' \ People = {u \in People' : u.uid = name}
             /\ People \subseteq People'
             /\ \A i \in accepted :
                   /\ log[i].call \in {"add_s", "modify_s"}
                   /\ log[i].call = "modify_s" =>
                         \A j \in 1..Len(log[i].mods) :
                            /\ log[i].mods[j].op = "MOD_ADD"
                            /\ log[i].mods[j].val.val \in Members(Group', log[i].dn.val)
                   /\ (log[i].call = "add_s" /\ log[i].dn.ou = "Group") =>
                         \E g \in Group' : g.cn = log[i].dn.val]_vars

\* user_add(u, groups=G) has just raised for a name of G that is not a group,
\* after adding u and its default group and joining u to it
C30_Witness ==
    /\ last.op = "user_add"
    /\ last.err.exc = "LookupError"
    /\ last.args.groups # <<>>
    /\ Len(last.log) >= 3
    /\ \E u \in People : u.uid = last.args.username
    /\ last.args.username \in Members(Group, last.args.username)

\* s is t with some of its elements left out, the order kept
RECURSIVE IsSubsequence(_, _)
IsSubsequence(s, t) ==
    IF s = <<>> THEN TRUE
    ELSE IF t = <<>> THEN FALSE
    ELSE IF Head(s) = Head(t) THEN IsSubsequence(Tail(s), Tail(t))
    ELSE IsSubsequence(s, Tail(t))

C33_PrimaryGroupChange ==
    [][LET a == last'.args
           u == UserNamed(People, a.username)
           g1s == {g.cn : g \in {x \in Group : x.gidNumber = u.gidNumber}}
       IN (/\ last'.op = "user_modify"
           /\ a.uid = NoId /\ a.gid = NoId /\ ~ a.groups_given
           /\ \E v \in People : v.uid = a.username
           /\ \E g \in Group : g.cn = a.groupname
           /\ g1s # {}
           /\ a.groupname \notin g1s
           /\ \A g1 \in g1s : a.username \in Members(Group, g1)) =>
             /\ last'.err = Ok
             /\ UserNamed(People', a.username).gidNumber = GroupNamed(Group, a.groupname).gidNumber
             /\ a.username \in Members(Group', a.groupname)
             /\ \A g1 \in g1s : a.username \notin Members(Group', g1)
             /\ \A g \in Group :
                   /\ \E h \in Group' : h.cn = g.cn /\ h.gidNumber = g.gidNumber
                   /\ g.cn \notin g1s \cup {a.groupname} => g \in Group'
             /\ {g.cn : g \in Group'} = {g.cn : g \in Group}
             /\ \A v \in People : v.uid # a.username => v \in People'
             /\ {v.uid : v \in People'} = {v.uid : v \in People}]_vars

\* the primary group of a user has just been changed by three writes: the
\* user has the gidNumber of the new group, is in its member list and is no
\* longer in the member list of the old one
C33_Witness ==
    /\ Returned("user_modify")
    /\ last.args.groupname # None
    /\ Len(last.log) = 3
    /\ last.args.username \in Members(Group, last.args.groupname)
    /\ UserNamed(People, last.args.username).gidNumber
          = GroupNamed(Group, last.args.groupname).gidNumber
    /\ last.args.username \notin Members(Group, last.log[2].dn.val)

(***************************************************************************)
(* C34: primary and secondary groups changed in one call.  For a user u in *)
(* the member list of its primary group g1, user_modify(u, groupname=g2,   *)
(* groups=D) with g2 and every group of D existing and g2 other than g1    *)
(* returns with u in the member list of g2 and of every group of D, also   *)
(* when g1 is in D.                                                        *)
(* Refuted: the groups to add are computed from the memberships read       *)
(* before the call left g1.                                                *)
(***************************************************************************)
C34_PrimaryAndSecondary ==
    [][LET a == last'.args
           u == UserNamed(People, a.username)
           g1s == {g.cn : g \in {x \in Group : x.gidNumber = u.gidNumber}}
       IN (/\ last'.op = "user_modify"
           /\ a.uid = NoId /\ a.gid = NoId
           /\ a.groups_given /\ a.groups # <<>>
           /\ \E v \in People : v.uid = a.username
           /\ \E g \in Group : g.cn = a.groupname
           /\ \A d \in Range(a.groups) : \E g \in Group : g.cn = d
           /\ g1s # {}
           /\ a.groupname \notin g1s
           /\ \A g1 \in g1s : a.username \in Members(Group, g1)) =>
             /\ last'.err = Ok
             /\ a.username \in Members(Group', a.groupname)
             /\ \A d \in Range(a.groups) : a.username \in Members(Group', d)]_vars

(***************************************************************************)
(* C35: the default group is reused.  user_add(u) with neither groupname   *)
(* nor gid, when a group named u exists, adds no group and changes the     *)
(* gidNumber of none: the names and gidNumbers of the groups are the same  *)
(* after the call as before, the call issues no add of a group, and the    *)
(* new user has the gidNumber of the group named u.                        *)
(***************************************************************************)
C35_DefaultGroupReused ==
    [][LET a == last'.args
       IN (/\ last'.op = "user_add"
           /\ a.groupname = None
           /\ a.gid = NoId
           /\ \E g \in Group : g.cn = a.username) =>
             /\ {<<g.cn, g.gidNumber>> : g \in Group'} = {<<g.cn, g.gidNumber>> : g \in Group}
             /\ \A i \in 1..Len(last'.log) :
                   ~ (last'.log[i].call = "add_s" /\ last'.log[i].dn.ou = "Group")
             /\ \A u \in People' \ People :
                   /\ u.uid = a.username
                   /\ u.gidNumber = GroupNamed(Group, a.username).gidNumber
             /\ (~ \E v \in People : v.uid = a.username \/ v.uidNumber = a.uid) =>
                   \E u \in People' : u.uid = a.username]_vars

\* user_add(u) has just returned on a directory that had a group named u:
\* its writes are the entry of u and the join of that group
C35_Witness ==
    /\ Returned("user_add")
    /\ last.args.groupname = None
    /\ last.args.gid = NoId
    /\ last.args.groups = <<>>
    /\ Len(last.log) = 2
    /\ last.log[2].dn = group_dn(last.args.username)
    /\ UserNamed(People, last.args.username).gidNumber
          = GroupNamed(Group, last.args.username).gidNumber

\* the entry of the user that command p adds
RaceUser(p) == CHOOSE u \in People : u.uid = RaceUsername(p)

RaceBothAdded == \A p \in Procs : \E u \in People : u.uid = RaceUsername(p)

\* C36: two user_add commands for distinct usernames, neither given a uid,
\* interleaved call by call.  When one of them read the user list after the
\* other had added its user (which is the case when they run one after the
\* other), the two users have distinct uidNumbers: two users with the same
\* uidNumber come only from commands that each read the user list before
\* the other wrote.
C36_DistinctUnlessOverlapped ==
    \A p \in Procs : \A q \in Procs \ {p} :
       (/\ RaceBothAdded
        /\ RaceUsername(p) \in {u.uid : u \in Proc(q).existing_users}) =>
             RaceUser(p).uidNumber # RaceUser(q).uidNumber

\* C36: both commands ran to their end, each having read a user list without
\* the other's user, and both users exist with the same uidNumber
C36_Witness ==
    /\ RaceBothAdded
    /\ \A p \in Procs : Proc(p).pc \in {"done", "raised"}
    /\ \A p \in Procs : \A q \in Procs \ {p} :
          RaceUsername(p) \notin {u.uid : u \in Proc(q).existing_users}
    /\ RaceUser(1).uidNumber = RaceUser(2).uidNumber

====
